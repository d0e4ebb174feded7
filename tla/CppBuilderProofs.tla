--------------------------- MODULE CppBuilderProofs ---------------------------
(***************************************************************************)
(* Proofs about the C text builder, for every size of the buffer, every      *)
(* program and every bound.                                                 *)
(*                                                                         *)
(* The inductive invariant IInv has two parts.  BufferOK says what the        *)
(* buffer delivers of the text that was given to write(); it is carried       *)
(* through the recursion over the characters of a text.  WorkOK says that     *)
(* the items on the stack lead from the present level, the pair of deepth    *)
(* and the number of open braces, back to the ground: each item changes the  *)
(* level in its own way, and where a node is visited both numbers agree.      *)
(* A visitor replaces its node by a list that leads from the node's level     *)
(* to itself (Even), whatever the level is.                                  *)
(*                                                                         *)
(* ListsOK, for the separators of the lists, is inductive together with       *)
(* IInv: while no compound statement was visited, each item of the stack may  *)
(* follow the text that the one in front of it leaves (Goes), and the         *)
(* parameters or arguments that are still to be written stand together, one   *)
(* more than the counter says (Pending).                                      *)
(***************************************************************************)
EXTENDS CppBuilder, Induction, SequenceTheorems

-----------------------------------------------------------------------------
(* The buffer.                                                             *)

\* The characters of the text that the visitors write.
Char == {"0", "w", "t", "o", "u", "q", "Q", ",", ";", "(", ")", "[", "]", "{", "}", "tab"}
Text == Seq(Char)

\* A buffer as write() keeps it: size counts what is in front of head.
Cells == [1 .. Capacity -> Char]
Buffer ==
    {b \in [cells : Cells, head : 1 .. Capacity + 1, size : 0 .. Capacity, out : Text] :
        b.size = b.head - 1}
DeliveredBy(b) == b.out \o SubSeq(b.cells, 1, b.size)

\* The start of the cells, and how it grows.
LEMMA CellsPrefix ==
    ASSUME NEW cells \in Cells, NEW n \in 0 .. Capacity
    PROVE  /\ SubSeq(cells, 1, n) \in Text /\ Len(SubSeq(cells, 1, n)) = n
           /\ \A i \in 1 .. n : SubSeq(cells, 1, n)[i] = cells[i]
  <1>1. Capacity \in Nat  BY CapacityAssumption
  <1>2. cells \in Seq(Char) /\ Len(cells) = Capacity  BY <1>1 DEF Cells
  <1>3. QED  BY <1>1, <1>2 DEF Text

\* One more cell that is written.
LEMMA CellsGrow ==
    ASSUME NEW cells \in Cells, NEW n \in 0 .. Capacity - 1, NEW c \in Char
    PROVE  /\ [cells EXCEPT ![n + 1] = c] \in Cells
           /\ SubSeq([cells EXCEPT ![n + 1] = c], 1, n + 1) = Append(SubSeq(cells, 1, n), c)
  <1> DEFINE more == [cells EXCEPT ![n + 1] = c]
             old == SubSeq(cells, 1, n)
             new == SubSeq(more, 1, n + 1)
  <1>1. /\ Capacity \in Nat /\ n \in Nat /\ n \in 0 .. Capacity /\ n + 1 \in 0 .. Capacity
        /\ n + 1 \in 1 .. Capacity
    BY CapacityAssumption
  <1>2. more \in Cells /\ more[n + 1] = c /\ \A i \in 1 .. n : more[i] = cells[i]
    BY <1>1 DEF Cells
  <1> HIDE DEF more
  <1>3. old \in Text /\ Len(old) = n /\ \A i \in 1 .. n : old[i] = cells[i]
    BY <1>1, CellsPrefix
  <1>4. new \in Text /\ Len(new) = n + 1 /\ \A i \in 1 .. n + 1 : new[i] = more[i]
    BY <1>1, <1>2, CellsPrefix
  <1> HIDE DEF old, new
  <1> DEFINE app == Append(old, c)
  <1>5. app \in Text /\ Len(app) = n + 1 /\ app[n + 1] = c
        /\ \A i \in 1 .. n : app[i] = old[i]
    BY <1>1, <1>3 DEF Text
  <1> HIDE DEF app
  <1>6. \A i \in 1 .. n + 1 : i \in 1 .. n \/ i = n + 1  BY <1>1
  <1>7. \A i \in 1 .. n + 1 : new[i] = app[i]  BY <1>2, <1>3, <1>4, <1>5, <1>6
  <1>8. new = app  BY <1>1, <1>4, <1>5, <1>7 DEF Text
  <1>9. QED  BY <1>2, <1>8 DEF more, old, new, app

\* Appending to the second of two texts.
LEMMA ConcatAppend ==
    ASSUME NEW s \in Text, NEW t \in Text, NEW c \in Char
    PROVE  s \o Append(t, c) = Append(s \o t, c)
  BY DEF Text

\* Making room delivers the same text, and leaves room.
LEMMA MakeRoomFacts ==
    ASSUME NEW b \in Buffer
    PROVE  /\ MakeRoom(b) \in Buffer /\ MakeRoom(b).head <= Capacity
           /\ DeliveredBy(MakeRoom(b)) = DeliveredBy(b) /\ DeliveredBy(b) \in Text
  <1>1. /\ Capacity \in Nat \ {0} /\ b.cells \in Cells /\ b.head \in 1 .. Capacity + 1
        /\ b.size \in 0 .. Capacity /\ b.out \in Text /\ b.size = b.head - 1
    BY CapacityAssumption DEF Buffer
  <1>2. SubSeq(b.cells, 1, b.size) \in Text  BY <1>1, CellsPrefix
  <1>3. DeliveredBy(b) \in Text  BY <1>1, <1>2 DEF DeliveredBy, Text
  <1>4. CASE b.head = Capacity + 1
    <2> DEFINE r == [b EXCEPT !.out = DeliveredBy(b), !.head = 1, !.size = 0]
    <2>1. MakeRoom(b) = r  BY <1>4 DEF MakeRoom, Flush, DeliveredBy
    <2>2. /\ r.cells = b.cells /\ r.head = 1 /\ r.size = 0 /\ r.out = DeliveredBy(b)
          /\ r \in [cells : Cells, head : 1 .. Capacity + 1, size : 0 .. Capacity, out : Text]
      <3> HIDE DEF DeliveredBy
      <3>1. 1 \in 1 .. Capacity + 1 /\ 0 \in 0 .. Capacity  BY <1>1
      <3>2. QED  BY <1>1, <1>3, <3>1 DEF Buffer
    <2>3. SubSeq(r.cells, 1, r.size) = <<>>
      <3>1. SubSeq(r.cells, 1, 0) \in Text /\ Len(SubSeq(r.cells, 1, 0)) = 0
        BY <1>1, <2>2, CellsPrefix
      <3>2. QED  BY <2>2, <3>1 DEF Text
    <2> HIDE DEF r
    <2>4. DeliveredBy(r) = r.out \o <<>>  BY <2>3 DEF DeliveredBy
    <2>5. DeliveredBy(r) = DeliveredBy(b)  BY <1>3, <2>2, <2>4 DEF Text
    <2>6. QED  BY <1>1, <1>3, <2>1, <2>2, <2>5 DEF Buffer
  <1>5. CASE b.head # Capacity + 1
    BY <1>1, <1>3, <1>5 DEF MakeRoom
  <1>6. QED  BY <1>4, <1>5

\* One character is delivered behind the others, unless it is a comma and they end with
\* a parenthesis.
LEMMA PutFacts ==
    ASSUME NEW b \in Buffer, NEW c \in Char
    PROVE  /\ Put(b, c) \in Buffer
           /\ \/ DeliveredBy(Put(b, c)) = Append(DeliveredBy(b), c)
              \/ /\ DeliveredBy(Put(b, c)) = DeliveredBy(b) /\ c = ","
                 /\ DeliveredBy(b) # <<>> /\ DeliveredBy(b)[Len(DeliveredBy(b))] = ")"
  <1> DEFINE r == MakeRoom(b)
  <1>1. /\ r \in Buffer /\ r.head <= Capacity /\ DeliveredBy(r) = DeliveredBy(b)
    BY MakeRoomFacts
  <1> HIDE DEF r
  <1>2. /\ Capacity \in Nat /\ r.cells \in Cells /\ r.head \in 1 .. Capacity
        /\ r.size \in 0 .. Capacity /\ r.out \in Text /\ r.size = r.head - 1
    BY <1>1, CapacityAssumption DEF Buffer
  <1> DEFINE n == r.size
             tail == SubSeq(r.cells, 1, n)
  <1>3. n \in 0 .. Capacity - 1 /\ r.head = n + 1 /\ n \in 0 .. Capacity  BY <1>2
  <1>4. tail \in Text /\ Len(tail) = n /\ \A i \in 1 .. n : tail[i] = r.cells[i]
    BY <1>2, <1>3, CellsPrefix
  <1>5. CASE c = "," /\ Before(r) = ")"
    <2>1. Put(b, c) = r  BY <1>5 DEF Put, r
    <2>2. r.head # 1 /\ r.cells[r.head - 1] = ")"
      BY <1>5 DEF Before, NoChar
    <2>3. n \in 1 .. n /\ r.cells[n] = ")"  BY <1>2, <1>3, <2>2
    <2>4. tail[n] = ")" /\ n > 0  BY <1>4, <2>3
    <2>5. DeliveredBy(r) = r.out \o tail  BY DEF DeliveredBy
    <2> HIDE DEF tail, n
    <2>6. /\ r.out \o tail # <<>> /\ (r.out \o tail)[Len(r.out \o tail)] = ")"
      BY <1>2, <1>4, <2>4 DEF Text
    <2>7. QED  BY <1>1, <1>5, <2>1, <2>5, <2>6
  <1>6. CASE ~(c = "," /\ Before(r) = ")")
    <2> DEFINE more == [r.cells EXCEPT ![n + 1] = c]
               p == [r EXCEPT !.cells = more, !.head = n + 2, !.size = n + 1]
    <2>1. Put(b, c) = [r EXCEPT !.cells[r.head] = c, !.head = @ + 1, !.size = @ + 1]
      BY <1>6 DEF Put, r
    <2>2. /\ more \in Cells /\ SubSeq(more, 1, n + 1) = Append(tail, c)
      BY <1>2, <1>3, CellsGrow
    <2>3. Put(b, c) = p
      <3>1. r.head + 1 = n + 2 /\ r.size + 1 = n + 1 /\ r.head = n + 1
        BY <1>2, <1>3
      <3> HIDE DEF n
      <3>2. QED  BY <1>1, <2>1, <3>1 DEF Buffer
    <2> HIDE DEF more, n
    <2>4. /\ p.cells = more /\ p.head = n + 2 /\ p.size = n + 1 /\ p.out = r.out
          /\ p \in [cells : Cells, head : 1 .. Capacity + 1, size : 0 .. Capacity, out : Text]
      <3>1. n + 2 \in 1 .. Capacity + 1 /\ n + 1 \in 0 .. Capacity  BY <1>2, <1>3
      <3>2. QED  BY <1>1, <2>2, <3>1 DEF Buffer
    <2> HIDE DEF p
    <2>5. p \in Buffer
      <3>1. n \in Int  BY <1>3
      <3>2. p.size = p.head - 1  BY <2>4, <3>1
      <3>3. QED  BY <2>4, <3>2 DEF Buffer
    <2>6. DeliveredBy(p) = r.out \o Append(tail, c)  BY <2>2, <2>4 DEF DeliveredBy
    <2>7. DeliveredBy(r) = r.out \o tail  BY DEF DeliveredBy, n
    <2>8. DeliveredBy(p) = Append(DeliveredBy(r), c)
      BY <1>2, <1>4, <2>6, <2>7, ConcatAppend
    <2>9. QED  BY <1>1, <2>3, <2>5, <2>8
  <1>7. QED  BY <1>5, <1>6

-----------------------------------------------------------------------------
(* The recursive operators of the model.                                   *)

\* What the recursion in Written computes.
LEMMA WrittenFunction ==
    ASSUME NEW b \in Buffer, NEW text \in Text
    PROVE  \E g \in [0 .. Len(text) -> Buffer] :
               /\ g[0] = b
               /\ \A n \in 1 .. Len(text) : g[n] = Put(g[n - 1], text[n])
               /\ Written(b, text) = g[Len(text)]
  <1> DEFINE last == Len(text)
             start == b
             step == [p \in Buffer \X (1 .. last) |-> Put(p[1], text[p[2]])]
             Step(f) == [n \in 0 .. last |-> IF n = 0 THEN b ELSE Put(f[n - 1], text[n])]
             g == CHOOSE f : f = Step(f)
  <1>1. last \in Nat /\ start \in Buffer /\ \A n \in 1 .. last : text[n] \in Char
    BY DEF Text
  <1>2. ASSUME NEW v \in Buffer, NEW n \in 1 .. last PROVE (Put(v, text[n])) \in Buffer
    BY <1>1, PutFacts
  <1>3. step \in Steps(Buffer, last)
    <2>1. \A p \in Buffer \X (1 .. last) : p[1] \in Buffer /\ p[2] \in 1 .. last  OBVIOUS
    <2> HIDE DEF last
    <2>2. QED  BY <1>2, <2>1 DEF Steps
  <1>4. PICK f : Computes(f, Buffer, start, last, step)
    <2> HIDE DEF step, last, start
    <2>1. QED  BY <1>1, <1>3, RecursiveFunction
  <1>5. f = Step(f)
    <2>1. \A n \in 0 .. last : n # 0 => n \in 1 .. last  BY <1>1
    <2>2. ASSUME NEW n \in 1 .. last PROVE f[n] = Put(f[n - 1], text[n])
      <3>1. n - 1 \in 0 .. last  BY <1>1
      <3>2. <<f[n - 1], n>> \in Buffer \X (1 .. last)  BY <1>4, <3>1 DEF Computes
      <3>3. f[n] = step[<<f[n - 1], n>>]  BY <1>4 DEF Computes
      <3> HIDE DEF last
      <3>4. QED  BY <3>2, <3>3
    <2> HIDE DEF step, last
    <2>3. f \in [0 .. last -> Buffer] /\ f[0] = b  BY <1>4 DEF Computes, start
    <2>4. \A n \in 0 .. last : f[n] = Step(f)[n]  BY <2>1, <2>2, <2>3
    <2>5. QED  BY <2>3, <2>4
  <1>6. g = Step(g)
    <2> HIDE DEF Step
    <2>1. QED  BY <1>5
  <1>7. Written(b, text) = g[last]  BY DEF Written
  <1> HIDE DEF g
  <1>8. /\ g = [n \in 0 .. last |-> g[n]] /\ g[0] = b
        /\ \A n \in 1 .. last : g[n] = Put(g[n - 1], text[n])
    <2>1. 0 \in 0 .. last /\ \A n \in 1 .. last : n \in 0 .. last /\ n # 0
      BY <1>1
    <2> HIDE DEF last
    <2>2. QED  BY <1>6, <2>1
  <1> DEFINE S == {m \in Nat : m <= last => g[m] \in Buffer}
  <1>9. 0 \in S  BY <1>1, <1>8
  <1>10. ASSUME NEW m \in Nat, m \in S PROVE m + 1 \in S
    <2> SUFFICES ASSUME m + 1 <= last PROVE g[m + 1] \in Buffer
      OBVIOUS
    <2>1. m + 1 \in 1 .. last /\ m + 1 - 1 = m /\ g[m] \in Buffer  BY <1>1, <1>10
    <2> HIDE DEF last, S
    <2>2. (Put(g[m], text[m + 1])) \in Buffer  BY <1>2, <2>1
    <2>3. \A n \in 1 .. last : g[n] = Put(g[n - 1], text[n])  BY <1>8
    <2>4. g[m + 1] = Put(g[m + 1 - 1], text[m + 1])  BY <2>1, <2>3
    <2>5. QED  BY <2>1, <2>2, <2>4
  <1>11. Nat \subseteq S
    <2> HIDE DEF S
    <2>1. QED  BY <1>9, <1>10, InductionOnSet
  <1>12. g \in [0 .. last -> Buffer]
    <2>1. \A m \in 0 .. last : g[m] \in Buffer  BY <1>1, <1>11
    <2>2. QED  BY <1>8, <2>1
  <1>13. QED  BY <1>7, <1>8, <1>12

\* Keeping a character or not.
LEMMA KeepFacts ==
    ASSUME NEW t \in Text, NEW c \in Char
    PROVE  Keep(t, c) \in Text
  <1>1. Append(t, c) \in Text  BY DEF Text
  <1>2. QED  BY <1>1 DEF Keep

\* What the recursion in WithoutCommas computes.
LEMMA KeptFunction ==
    ASSUME NEW text \in Text
    PROVE  \E g \in [0 .. Len(text) -> Text] :
               /\ g[0] = <<>>
               /\ \A n \in 1 .. Len(text) : g[n] = Keep(g[n - 1], text[n])
               /\ WithoutCommas(text) = g[Len(text)]
  <1> DEFINE last == Len(text)
             start == <<>>
             step == [p \in Text \X (1 .. last) |-> Keep(p[1], text[p[2]])]
             Step(f) == [n \in 0 .. last |-> IF n = 0 THEN <<>> ELSE Keep(f[n - 1], text[n])]
             g == CHOOSE f : f = Step(f)
  <1>1. last \in Nat /\ start \in Text /\ \A n \in 1 .. last : text[n] \in Char
    BY DEF Text
  <1>2. ASSUME NEW v \in Text, NEW n \in 1 .. last PROVE (Keep(v, text[n])) \in Text
    <2>1. text[n] \in Char  BY <1>1
    <2> HIDE DEF last
    <2>2. QED  BY <2>1, KeepFacts
  <1>3. step \in Steps(Text, last)
    <2>1. \A p \in Text \X (1 .. last) : p[1] \in Text /\ p[2] \in 1 .. last  OBVIOUS
    <2> HIDE DEF last
    <2>2. QED  BY <1>2, <2>1 DEF Steps
  <1>4. PICK f : Computes(f, Text, start, last, step)
    <2> HIDE DEF step, last, start
    <2>1. QED  BY <1>1, <1>3, RecursiveFunction
  <1>5. f = Step(f)
    <2>1. \A n \in 0 .. last : n # 0 => n \in 1 .. last  BY <1>1
    <2>2. ASSUME NEW n \in 1 .. last PROVE f[n] = Keep(f[n - 1], text[n])
      <3>1. n - 1 \in 0 .. last  BY <1>1
      <3>2. <<f[n - 1], n>> \in Text \X (1 .. last)  BY <1>4, <3>1 DEF Computes
      <3>3. f[n] = step[<<f[n - 1], n>>]  BY <1>4 DEF Computes
      <3> HIDE DEF last
      <3>4. QED  BY <3>2, <3>3
    <2> HIDE DEF step, last
    <2>3. f \in [0 .. last -> Text] /\ f[0] = <<>>  BY <1>4 DEF Computes, start
    <2>4. \A n \in 0 .. last : f[n] = Step(f)[n]  BY <2>1, <2>2, <2>3
    <2>5. QED  BY <2>3, <2>4
  <1>6. g = Step(g)
    <2> HIDE DEF Step
    <2>1. QED  BY <1>5
  <1>7. WithoutCommas(text) = g[last]  BY DEF WithoutCommas
  <1> HIDE DEF g
  <1>8. /\ g = [n \in 0 .. last |-> g[n]] /\ g[0] = <<>>
        /\ \A n \in 1 .. last : g[n] = Keep(g[n - 1], text[n])
    <2>1. 0 \in 0 .. last /\ \A n \in 1 .. last : n \in 0 .. last /\ n # 0
      BY <1>1
    <2> HIDE DEF last
    <2>2. QED  BY <1>6, <2>1
  <1> DEFINE S == {m \in Nat : m <= last => g[m] \in Text}
  <1>9. 0 \in S  BY <1>1, <1>8
  <1>10. ASSUME NEW m \in Nat, m \in S PROVE m + 1 \in S
    <2> SUFFICES ASSUME m + 1 <= last PROVE g[m + 1] \in Text
      OBVIOUS
    <2>1. m + 1 \in 1 .. last /\ m + 1 - 1 = m /\ g[m] \in Text  BY <1>1, <1>10
    <2> HIDE DEF last, S
    <2>2. (Keep(g[m], text[m + 1])) \in Text  BY <1>2, <2>1
    <2>3. \A n \in 1 .. last : g[n] = Keep(g[n - 1], text[n])  BY <1>8
    <2>4. g[m + 1] = Keep(g[m + 1 - 1], text[m + 1])  BY <2>1, <2>3
    <2>5. QED  BY <2>1, <2>2, <2>4
  <1>11. Nat \subseteq S
    <2> HIDE DEF S
    <2>1. QED  BY <1>9, <1>10, InductionOnSet
  <1>12. g \in [0 .. last -> Text]
    <2>1. \A m \in 0 .. last : g[m] \in Text  BY <1>1, <1>11
    <2>2. QED  BY <1>8, <2>1
  <1>13. QED  BY <1>7, <1>8, <1>12

\* What the recursion in Open computes.
LEMMA OpenFunction ==
    ASSUME NEW text \in Text
    PROVE  \E g \in [0 .. Len(text) -> Int] :
               /\ g[0] = 0
               /\ \A n \in 1 .. Len(text) : g[n] = g[n - 1] + Brace(text[n])
               /\ Open(text) = g[Len(text)]
  <1> DEFINE last == Len(text)
             start == 0
             step == [p \in Int \X (1 .. last) |-> p[1] + Brace(text[p[2]])]
             Step(f) == [n \in 0 .. last |-> IF n = 0 THEN 0 ELSE f[n - 1] + Brace(text[n])]
             g == CHOOSE f : f = Step(f)
  <1>1. last \in Nat /\ start \in Int /\ \A n \in 1 .. last : text[n] \in Char
    BY DEF Text
  <1>2. ASSUME NEW v \in Int, NEW n \in 1 .. last PROVE (v + Brace(text[n])) \in Int
    <2>1. Brace(text[n]) \in Int  BY DEF Brace
    <2> HIDE DEF last
    <2>2. QED  BY <2>1
  <1>3. step \in Steps(Int, last)
    <2>1. \A p \in Int \X (1 .. last) : p[1] \in Int /\ p[2] \in 1 .. last  OBVIOUS
    <2> HIDE DEF last
    <2>2. QED  BY <1>2, <2>1 DEF Steps
  <1>4. PICK f : Computes(f, Int, start, last, step)
    <2> HIDE DEF step, last, start
    <2>1. QED  BY <1>1, <1>3, RecursiveFunction
  <1>5. f = Step(f)
    <2>1. \A n \in 0 .. last : n # 0 => n \in 1 .. last  BY <1>1
    <2>2. ASSUME NEW n \in 1 .. last PROVE f[n] = f[n - 1] + Brace(text[n])
      <3>1. n - 1 \in 0 .. last  BY <1>1
      <3>2. <<f[n - 1], n>> \in Int \X (1 .. last)  BY <1>4, <3>1 DEF Computes
      <3>3. f[n] = step[<<f[n - 1], n>>]  BY <1>4 DEF Computes
      <3> HIDE DEF last
      <3>4. QED  BY <3>2, <3>3
    <2> HIDE DEF step, last
    <2>3. f \in [0 .. last -> Int] /\ f[0] = 0  BY <1>4 DEF Computes, start
    <2>4. \A n \in 0 .. last : f[n] = Step(f)[n]  BY <2>1, <2>2, <2>3
    <2>5. QED  BY <2>3, <2>4
  <1>6. g = Step(g)
    <2> HIDE DEF Step
    <2>1. QED  BY <1>5
  <1>7. Open(text) = g[last]  BY DEF Open
  <1> HIDE DEF g
  <1>8. /\ g = [n \in 0 .. last |-> g[n]] /\ g[0] = 0
        /\ \A n \in 1 .. last : g[n] = g[n - 1] + Brace(text[n])
    <2>1. 0 \in 0 .. last /\ \A n \in 1 .. last : n \in 0 .. last /\ n # 0
      BY <1>1
    <2> HIDE DEF last
    <2>2. QED  BY <1>6, <2>1
  <1> DEFINE S == {m \in Nat : m <= last => g[m] \in Int}
  <1>9. 0 \in S  BY <1>1, <1>8
  <1>10. ASSUME NEW m \in Nat, m \in S PROVE m + 1 \in S
    <2> SUFFICES ASSUME m + 1 <= last PROVE g[m + 1] \in Int
      OBVIOUS
    <2>1. m + 1 \in 1 .. last /\ m + 1 - 1 = m /\ g[m] \in Int  BY <1>1, <1>10
    <2> HIDE DEF last, S
    <2>2. (g[m] + Brace(text[m + 1])) \in Int  BY <1>2, <2>1
    <2>3. \A n \in 1 .. last : g[n] = g[n - 1] + Brace(text[n])  BY <1>8
    <2>4. g[m + 1] = g[m + 1 - 1] + Brace(text[m + 1])  BY <2>1, <2>3
    <2>5. QED  BY <2>1, <2>2, <2>4
  <1>11. Nat \subseteq S
    <2> HIDE DEF S
    <2>1. QED  BY <1>9, <1>10, InductionOnSet
  <1>12. g \in [0 .. last -> Int]
    <2>1. \A m \in 0 .. last : g[m] \in Int  BY <1>1, <1>11
    <2>2. QED  BY <1>8, <2>1
  <1>13. QED  BY <1>7, <1>8, <1>12

\* The braces of a character.
LEMMA BraceType ==
    ASSUME NEW c PROVE Brace(c) \in Int
  BY DEF Brace

\* ... and which characters are braces.
LEMMA BraceFacts ==
    /\ Brace("{") = 1 /\ Brace("}") = -1
    /\ \A c \in Char : c \notin {"{", "}"} => Brace(c) = 0
  BY DEF Brace

\* A text and one more character, without the commas.
LEMMA KeptAppend ==
    ASSUME NEW s \in Text, NEW c \in Char
    PROVE  WithoutCommas(Append(s, c)) = Keep(WithoutCommas(s), c)
  <1> DEFINE t == Append(s, c)
             n == Len(s)
  <1>1. /\ n \in Nat /\ t \in Text /\ Len(t) = n + 1 /\ t[n + 1] = c
        /\ \A i \in 1 .. n : t[i] = s[i]
    BY DEF Text
  <1> HIDE DEF t
  <1>2. PICK g \in [0 .. Len(s) -> Text] :
               /\ g[0] = <<>>
               /\ \A i \in 1 .. Len(s) : g[i] = Keep(g[i - 1], s[i])
               /\ WithoutCommas(s) = g[Len(s)]
    BY KeptFunction
  <1>3. PICK h \in [0 .. Len(t) -> Text] :
               /\ h[0] = <<>>
               /\ \A i \in 1 .. Len(t) : h[i] = Keep(h[i - 1], t[i])
               /\ WithoutCommas(t) = h[Len(t)]
    BY <1>1, KeptFunction
  <1>4. ASSUME NEW i \in 1 .. n, h[i - 1] = g[i - 1] PROVE h[i] = g[i]
    <2>1. i \in 1 .. Len(t) /\ t[i] = s[i]  BY <1>1
    <2>2. QED  BY <1>2, <1>3, <1>4, <2>1
  <1>5. h[n] = g[n]
    <2>1. n \in Nat /\ n \in 0 .. n  BY <1>1
    <2>2. h[0] = g[0]  BY <1>2, <1>3
    <2> HIDE DEF n
    <2>3. Alike(h, g, n)  BY <1>4, <2>2 DEF Alike
    <2>4. QED  BY <2>1, <2>3, SameSteps
  <1>6. h[n + 1] = Keep(h[n], c)
    <2>1. n + 1 \in 1 .. Len(t) /\ n + 1 - 1 = n  BY <1>1
    <2> HIDE DEF n
    <2>2. QED  BY <1>1, <1>3, <2>1
  <1>7. QED  BY <1>1, <1>2, <1>3, <1>5, <1>6 DEF t

\* The braces of two texts.
LEMMA OpenConcat ==
    ASSUME NEW s \in Text, NEW t \in Text
    PROVE  Open(s) \in Int /\ Open(t) \in Int /\ Open(s \o t) = Open(s) + Open(t)
  <1> DEFINE n == Len(s)
             k == Len(t)
             u == s \o t
  <1>1. /\ n \in Nat /\ k \in Nat /\ u \in Text /\ Len(u) = n + k
        /\ \A i \in 1 .. n : u[i] = s[i]
        /\ \A i \in 1 .. k : u[n + i] = t[i]
    BY DEF Text
  <1>2. PICK g \in [0 .. Len(s) -> Int] :
               /\ g[0] = 0
               /\ \A i \in 1 .. Len(s) : g[i] = g[i - 1] + Brace(s[i])
               /\ Open(s) = g[Len(s)]
    BY OpenFunction
  <1>3. PICK f \in [0 .. Len(t) -> Int] :
               /\ f[0] = 0
               /\ \A i \in 1 .. Len(t) : f[i] = f[i - 1] + Brace(t[i])
               /\ Open(t) = f[Len(t)]
    BY OpenFunction
  <1> HIDE DEF u
  <1>4. PICK h \in [0 .. Len(u) -> Int] :
               /\ h[0] = 0
               /\ \A i \in 1 .. Len(u) : h[i] = h[i - 1] + Brace(u[i])
               /\ Open(u) = h[Len(u)]
    BY <1>1, OpenFunction
  <1>5. ASSUME NEW i \in 1 .. n, h[i - 1] = g[i - 1] PROVE h[i] = g[i]
    <2>1. i \in 1 .. Len(u) /\ u[i] = s[i]  BY <1>1
    <2>2. QED  BY <1>2, <1>4, <1>5, <2>1
  <1>6. h[n] = g[n]
    <2>1. n \in Nat /\ n \in 0 .. n  BY <1>1
    <2>2. h[0] = g[0]  BY <1>2, <1>4
    <2> HIDE DEF n
    <2>3. Alike(h, g, n)  BY <1>5, <2>2 DEF Alike
    <2>4. QED  BY <2>1, <2>3, SameSteps
  <1>7. g[n] \in Int /\ f[k] \in Int
    <2>1. n \in 0 .. n /\ k \in 0 .. k  BY <1>1
    <2> HIDE DEF n, k
    <2>2. QED  BY <1>2, <1>3, <2>1 DEF n, k
  <1> DEFINE S == {m \in Nat : m <= k => h[n + m] = g[n] + f[m]}
  <1>8. 0 \in S
    <2>1. n + 0 = n /\ g[n] + 0 = g[n]  BY <1>1, <1>7
    <2>2. QED  BY <1>3, <1>6, <2>1
  <1>9. ASSUME NEW m \in Nat, m \in S PROVE m + 1 \in S
    <2> SUFFICES ASSUME m + 1 <= k PROVE h[n + (m + 1)] = g[n] + f[m + 1]
      OBVIOUS
    <2> DEFINE j == n + (m + 1)
    <2>1. /\ m + 1 \in 1 .. Len(t) /\ m + 1 - 1 = m /\ m \in 0 .. Len(t)
          /\ j \in 1 .. Len(u) /\ j - 1 = n + m /\ m + 1 \in 1 .. k
      BY <1>1
    <2>2. h[n + m] = g[n] + f[m]  BY <1>9
    <2>3. u[j] = t[m + 1]  BY <1>1, <2>1
    <2>4. f[m] \in Int /\ Brace(t[m + 1]) \in Int
      BY <1>3, <2>1, BraceType
    <2> HIDE DEF n, k, j
    <2>5. h[j] = h[n + m] + Brace(t[m + 1])
      <3>1. \A i \in 1 .. Len(u) : h[i] = h[i - 1] + Brace(u[i])  BY <1>4
      <3>2. h[j] = h[j - 1] + Brace(u[j])  BY <2>1, <3>1
      <3>3. QED  BY <2>1, <2>3, <3>2
    <2>6. f[m + 1] = f[m] + Brace(t[m + 1])  BY <1>3, <2>1
    <2>7. \A a, b, c \in Int : (a + b) + c = a + (b + c)  OBVIOUS
    <2>8. QED  BY <1>7, <2>2, <2>4, <2>5, <2>6, <2>7 DEF j
  <1>10. Nat \subseteq S
    <2> HIDE DEF S
    <2>1. QED  BY <1>8, <1>9, InductionOnSet
  <1>11. h[n + k] = g[n] + f[k]
    <2>1. k <= k  BY <1>1
    <2>2. QED  BY <1>1, <1>10, <2>1
  <1>12. QED  BY <1>1, <1>2, <1>3, <1>4, <1>7, <1>11 DEF u

\* A text without a brace opens none.
LEMMA OpenNothing ==
    ASSUME NEW text \in Text, \A i \in 1 .. Len(text) : Brace(text[i]) = 0
    PROVE  Open(text) = 0
  <1>1. PICK g \in [0 .. Len(text) -> Int] :
               /\ g[0] = 0
               /\ \A i \in 1 .. Len(text) : g[i] = g[i - 1] + Brace(text[i])
               /\ Open(text) = g[Len(text)]
    BY OpenFunction
  <1> DEFINE n == Len(text)
             zero == [i \in 0 .. n |-> 0]
  <1>2. n \in Nat  BY DEF Text
  <1> HIDE DEF n
  <1>3. ASSUME NEW i \in 1 .. n, g[i - 1] = zero[i - 1] PROVE g[i] = zero[i]
    <2>1. Brace(text[i]) = 0  BY DEF n
    <2>2. i \in 0 .. n /\ i - 1 \in 0 .. n  BY <1>2
    <2>3. zero[i] = 0 /\ zero[i - 1] = 0  BY <2>2
    <2> HIDE DEF zero
    <2>4. g[i] = g[i - 1] + 0  BY <1>1, <2>1 DEF n
    <2>5. QED  BY <1>3, <2>3, <2>4
  <1>4. 0 \in 0 .. n /\ n \in 0 .. n  BY <1>2
  <1>5. zero[0] = 0 /\ zero[n] = 0  BY <1>4
  <1>6. g[n] = zero[n]
    <2>1. g[0] = zero[0]  BY <1>1, <1>5
    <2> HIDE DEF zero
    <2>2. Alike(g, zero, n)  BY <1>3, <2>1 DEF Alike
    <2>3. QED  BY <1>2, <1>4, <2>2, SameSteps
  <1>7. QED  BY <1>1, <1>5, <1>6 DEF n

\* A text of one character.
LEMMA OpenOne ==
    ASSUME NEW a \in Char
    PROVE  <<a>> \in Text /\ Open(<<a>>) = Brace(a)
  <1> DEFINE s == <<a>>
  <1>1. s \in Text /\ Len(s) = 1 /\ s[1] = a  BY DEF Text
  <1> HIDE DEF s
  <1>2. PICK g \in [0 .. Len(s) -> Int] :
               /\ g[0] = 0
               /\ \A i \in 1 .. Len(s) : g[i] = g[i - 1] + Brace(s[i])
               /\ Open(s) = g[Len(s)]
    BY <1>1, OpenFunction
  <1>3. 1 \in 1 .. 1 /\ 1 - 1 = 0  OBVIOUS
  <1>4. g[1] = 0 + Brace(s[1])  BY <1>1, <1>2, <1>3
  <1>5. Brace(a) \in Int  BY BraceType
  <1>6. QED  BY <1>1, <1>2, <1>4, <1>5 DEF s

\* A text of two characters.
LEMMA OpenTwo ==
    ASSUME NEW a \in Char, NEW b \in Char
    PROVE  <<a, b>> \in Text /\ Open(<<a, b>>) = Brace(a) + Brace(b)
  <1>1. /\ <<a>> \in Text /\ <<b>> \in Text /\ Open(<<a>>) = Brace(a)
        /\ Open(<<b>>) = Brace(b)
    BY OpenOne
  <1>2. Append(<<a>>, b) = <<a>> \o <<b>>  BY DEF Text
  <1>3. <<a, b>> = Append(<<a>>, b) /\ <<a, b>> \in Text  BY DEF Text
  <1>4. Open(<<a, b>>) = Open(<<a>> \o <<b>>)  BY <1>2, <1>3
  <1>5. Open(<<a>> \o <<b>>) = Open(<<a>>) + Open(<<b>>)  BY <1>1, OpenConcat
  <1>6. QED  BY <1>1, <1>3, <1>4, <1>5

\* A text of three characters.
LEMMA OpenThree ==
    ASSUME NEW a \in Char, NEW b \in Char, NEW c \in Char
    PROVE  <<a, b, c>> \in Text /\ Open(<<a, b, c>>) = Brace(a) + Brace(b) + Brace(c)
  <1>1. /\ <<a, b>> \in Text /\ <<c>> \in Text /\ Open(<<a, b>>) = Brace(a) + Brace(b)
        /\ Open(<<c>>) = Brace(c)
    BY OpenOne, OpenTwo
  <1>2. <<a, b, c>> = <<a, b>> \o <<c>>  OBVIOUS
  <1>3. <<a, b, c>> \in Text  BY DEF Text
  <1>4. QED  BY <1>1, <1>2, <1>3, OpenConcat

\* A text of four characters.
LEMMA OpenFour ==
    ASSUME NEW a \in Char, NEW b \in Char, NEW c \in Char, NEW d \in Char
    PROVE  /\ <<a, b, c, d>> \in Text
           /\ Open(<<a, b, c, d>>) = Brace(a) + Brace(b) + Brace(c) + Brace(d)
  <1>1. /\ <<a, b, c>> \in Text /\ <<d>> \in Text /\ Open(<<d>>) = Brace(d)
        /\ Open(<<a, b, c>>) = Brace(a) + Brace(b) + Brace(c)
    BY OpenOne, OpenThree
  <1>2. <<a, b, c, d>> = <<a, b, c>> \o <<d>>  OBVIOUS
  <1>3. <<a, b, c, d>> \in Text  BY DEF Text
  <1>4. QED  BY <1>1, <1>2, <1>3, OpenConcat

-----------------------------------------------------------------------------
(* What is delivered.                                                      *)

\* What the buffer delivers of the text m that was written to it.
Drops(m) == \E i \in 1 .. Len(m) - 1 : m[i] = ")" /\ m[i + 1] = ","
Delivers(b, m) ==
    /\ WithoutCommas(DeliveredBy(b)) = WithoutCommas(m)
    /\ ~Drops(m) => DeliveredBy(b) = m

\* A comma that may be dropped stays one in a longer text, and one more arises where a
\* comma follows a parenthesis.
LEMMA DropsAppend ==
    ASSUME NEW m \in Text, NEW c \in Char
    PROVE  /\ Drops(m) => Drops(Append(m, c))
           /\ m # <<>> /\ m[Len(m)] = ")" /\ c = "," => Drops(Append(m, c))
  <1> DEFINE n == Len(m)
             k == Append(m, c)
  <1>1. /\ n \in Nat /\ Len(k) = n + 1 /\ k[n + 1] = c
        /\ \A i \in 1 .. n : k[i] = m[i]
    BY DEF Text
  <1> HIDE DEF k
  <1>2. ASSUME Drops(m) PROVE Drops(k)
    <2>1. PICK i \in 1 .. n - 1 : m[i] = ")" /\ m[i + 1] = ","  BY <1>2 DEF Drops
    <2>2. i \in 1 .. n /\ i + 1 \in 1 .. n /\ i \in 1 .. (n + 1) - 1  BY <1>1
    <2> HIDE DEF n
    <2>3. QED  BY <1>1, <2>1, <2>2 DEF Drops
  <1>3. ASSUME m # <<>>, m[n] = ")", c = "," PROVE Drops(k)
    <2>1. n # 0
      <3>1. Len(m) = 0 => m = <<>>  BY DEF Text
      <3>2. QED  BY <1>3, <3>1
    <2>2. n \in 1 .. n /\ n \in 1 .. (n + 1) - 1  BY <1>1, <2>1
    <2>3. k[n] = ")" /\ k[n + 1] = ","  BY <1>1, <1>3, <2>2
    <2> HIDE DEF n
    <2>4. QED  BY <1>1, <2>2, <2>3 DEF Drops
  <1>4. QED  BY <1>2, <1>3 DEF k

\* One more character.
LEMMA PutDelivers ==
    ASSUME NEW b \in Buffer, NEW m \in Text, NEW c \in Char, Delivers(b, m)
    PROVE  Delivers(Put(b, c), Append(m, c))
  <1> DEFINE d == DeliveredBy(b)
             e == DeliveredBy(Put(b, c))
             k == Append(m, c)
  <1>1. d \in Text  BY MakeRoomFacts
  <1>2. WithoutCommas(k) = Keep(WithoutCommas(m), c)  BY KeptAppend
  <1>3. (Drops(m) => Drops(k)) /\ (m # <<>> /\ m[Len(m)] = ")" /\ c = "," => Drops(k))
    BY DropsAppend
  <1>4. WithoutCommas(d) = WithoutCommas(m) /\ (~Drops(m) => d = m)  BY DEF Delivers
  <1>5. \/ e = Append(d, c)
        \/ e = d /\ c = "," /\ d # <<>> /\ d[Len(d)] = ")"
    BY PutFacts
  <1> HIDE DEF d, e
  <1>6. CASE e = Append(d, c)
    <2>1. WithoutCommas(e) = Keep(WithoutCommas(d), c)  BY <1>1, <1>6, KeptAppend
    <2>2. ~Drops(k) => e = k  BY <1>3, <1>4, <1>6
    <2>3. QED  BY <1>2, <1>4, <2>1, <2>2 DEF Delivers, e
  <1>7. CASE e = d /\ c = "," /\ d # <<>> /\ d[Len(d)] = ")"
    <2>1. WithoutCommas(k) = WithoutCommas(m)  BY <1>2, <1>7 DEF Keep
    <2>2. WithoutCommas(e) = WithoutCommas(k)  BY <1>4, <1>7, <2>1
    <2>3. Drops(k)
      <3>1. CASE Drops(m)  BY <1>3, <3>1
      <3>2. CASE ~Drops(m)
        <4>1. d = m  BY <1>4, <3>2
        <4> HIDE DEF k
        <4>2. QED  BY <1>3, <1>7, <4>1
      <3>3. QED  BY <3>1, <3>2
    <2>4. QED  BY <2>2, <2>3 DEF Delivers, e
  <1>8. QED  BY <1>5, <1>6, <1>7

\* The text up to a character.
LEMMA Prefixes ==
    ASSUME NEW t \in Text
    PROVE  /\ SubSeq(t, 1, 0) = <<>> /\ SubSeq(t, 1, Len(t)) = t
           /\ \A n \in 0 .. Len(t) - 1 :
                  /\ SubSeq(t, 1, n) \in Text /\ t[n + 1] \in Char
                  /\ SubSeq(t, 1, n + 1) = Append(SubSeq(t, 1, n), t[n + 1])
  <1>1. Len(t) \in Nat /\ t \in Seq(Char)  BY DEF Text
  <1>2. SubSeq(t, 1, 0) = <<>> /\ SubSeq(t, 1, Len(t)) = t  BY <1>1
  <1>3. ASSUME NEW n \in 0 .. Len(t) - 1
        PROVE  /\ SubSeq(t, 1, n) \in Text /\ t[n + 1] \in Char
               /\ SubSeq(t, 1, n + 1) = Append(SubSeq(t, 1, n), t[n + 1])
    <2> DEFINE p == SubSeq(t, 1, n)
               q == SubSeq(t, 1, n + 1)
               a == Append(p, t[n + 1])
    <2>1. /\ n \in Nat /\ n <= Len(t) /\ n + 1 \in 1 .. Len(t) /\ n \in 0 .. Len(t)
          /\ n + 1 \in 0 .. Len(t)
      BY <1>1
    <2>2. t[n + 1] \in Char  BY <1>1, <2>1
    <2>3. p \in Seq(Char) /\ Len(p) = n /\ \A i \in 1 .. n : p[i] = t[i]
      BY <1>1, <2>1
    <2>4. q \in Seq(Char) /\ Len(q) = n + 1 /\ \A i \in 1 .. n + 1 : q[i] = t[i]
      BY <1>1, <2>1
    <2> HIDE DEF p, q
    <2>5. /\ a \in Seq(Char) /\ Len(a) = n + 1 /\ a[n + 1] = t[n + 1]
          /\ \A i \in 1 .. n : a[i] = p[i]
      BY <2>1, <2>2, <2>3
    <2> HIDE DEF a
    <2>6. \A i \in 1 .. n + 1 : i \in 1 .. n \/ i = n + 1  BY <2>1
    <2>7. \A i \in 1 .. n + 1 : q[i] = a[i]  BY <2>3, <2>4, <2>5, <2>6
    <2>8. q = a  BY <2>1, <2>4, <2>5, <2>7
    <2>9. QED  BY <2>2, <2>3, <2>8 DEF Text, p, q, a
  <1>4. QED  BY <1>2, <1>3

\* write() keeps the buffer in shape and delivers its text behind what was written.
LEMMA WrittenDelivers ==
    ASSUME NEW b \in Buffer, NEW m \in Text, NEW text \in Text, Delivers(b, m)
    PROVE  /\ Written(b, text) \in Buffer /\ m \o text \in Text
           /\ Delivers(Written(b, text), m \o text)
  <1>1. PICK g \in [0 .. Len(text) -> Buffer] :
               /\ g[0] = b
               /\ \A n \in 1 .. Len(text) : g[n] = Put(g[n - 1], text[n])
               /\ Written(b, text) = g[Len(text)]
    BY WrittenFunction
  <1> DEFINE last == Len(text)
             p(n) == SubSeq(text, 1, n)
             S == {n \in Nat : n <= last => Delivers(g[n], m \o p(n))}
  <1>2. last \in Nat  BY DEF Text
  <1>3. 0 \in S
    <2>1. p(0) = <<>>  BY Prefixes
    <2>2. m \o p(0) = m  BY <2>1 DEF Text
    <2> HIDE DEF p
    <2>3. QED  BY <1>1, <2>2
  <1>4. ASSUME NEW n \in Nat, n \in S PROVE n + 1 \in S
    <2> SUFFICES ASSUME n + 1 <= last PROVE Delivers(g[n + 1], m \o p(n + 1))
      OBVIOUS
    <2> DEFINE k == n + 1
    <2>1. n \in 0 .. last - 1 /\ k \in 1 .. last /\ k - 1 = n /\ n \in 0 .. last  BY <1>2
    <2>2. /\ p(n) \in Text /\ text[k] \in Char /\ p(k) = Append(p(n), text[k])
      BY <2>1, Prefixes
    <2> HIDE DEF p, k
    <2>3. m \o p(k) = Append(m \o p(n), text[k]) /\ m \o p(n) \in Text
      BY <2>2, ConcatAppend DEF Text
    <2>4. g[n] \in Buffer /\ Delivers(g[n], m \o p(n))  BY <1>1, <1>4, <2>1
    <2> HIDE DEF last
    <2>5. g[k] = Put(g[n], text[k])  BY <1>1, <2>1 DEF last
    <2>6. Delivers(g[k], m \o p(k))  BY <2>2, <2>3, <2>4, <2>5, PutDelivers
    <2>7. QED  BY <2>6 DEF k
  <1>5. Nat \subseteq S
    <2> HIDE DEF S
    <2>1. QED  BY <1>3, <1>4, InductionOnSet
  <1>6. Delivers(g[last], m \o p(last)) /\ g[last] \in Buffer
    <2>1. last <= last /\ last \in 0 .. last  BY <1>2
    <2> HIDE DEF p, last
    <2>2. QED  BY <1>1, <1>2, <1>5, <2>1 DEF last
  <1>7. p(last) = text  BY Prefixes
  <1>8. m \o text \in Text  BY DEF Text
  <1> HIDE DEF p, last
  <1>9. QED  BY <1>1, <1>6, <1>7, <1>8 DEF last

-----------------------------------------------------------------------------
(* What the visitors have left to do.                                      *)

\* What a visitor does; all but the visit of the program's components.
What == {"write", "goodLook", "deeper", "shallower", "stmts", "expr", "arg", "param",
         "init", "components"}
Item == {item \in [what : What, text : Text] : item.what = "write" \/ item.text = <<>>}
Inside == {item \in Item : item.what # "components"}

\* The bodies the builder is inside of, and the braces that are open.
Level == Nat \X Int
Ground == <<0, 0>>

\* How an item changes the level.  Where a node is visited both numbers agree, and they
\* still do behind it.
Deepens(item) == CASE item.what = "deeper" -> 1 [] item.what = "shallower" -> -1 [] OTHER -> 0
Node == {"stmts", "expr", "arg", "param", "init"}
Changes(item, a, b) ==
    /\ b[1] = a[1] + Deepens(item) /\ b[2] = a[2] + Open(item.text)
    /\ item.what \in Node => a[1] = a[2]

\* The levels along a list of items.
Profile(f, list, a, b) ==
    /\ f \in [1 .. Len(list) + 1 -> Level]
    /\ f[1] = a /\ f[Len(list) + 1] = b
    /\ \A k \in 1 .. Len(list) : Changes(list[k], f[k], f[k + 1])
Leads(list, a, b) == \E f : Profile(f, list, a, b)

\* The empty list leads nowhere.
LEMMA LeadsNowhere ==
    ASSUME NEW a \in Level, NEW b \in Level
    PROVE  Leads(<<>>, a, b) <=> a = b
  <1>1. Len(<<>>) = 0 /\ 0 + 1 = 1 /\ 1 .. 0 = {}  OBVIOUS
  <1>2. ASSUME Leads(<<>>, a, b) PROVE a = b
    BY <1>1, <1>2 DEF Leads, Profile
  <1>3. Profile([k \in 1 .. 1 |-> a], <<>>, a, a)
    <2>1. [k \in 1 .. 1 |-> a] \in [1 .. 1 -> Level] /\ [k \in 1 .. 1 |-> a][1] = a
      OBVIOUS
    <2>2. QED  BY <1>1, <2>1 DEF Profile
  <1>4. QED  BY <1>2, <1>3 DEF Leads

\* One list behind another.
LEMMA LeadsOn ==
    ASSUME NEW s \in Seq(Item), NEW t \in Seq(Item),
           NEW a \in Level, NEW b \in Level, NEW c \in Level, Leads(s, a, b), Leads(t, b, c)
    PROVE  Leads(s \o t, a, c)
  <1> DEFINE n == Len(s)
             k == Len(t)
             u == s \o t
  <1>1. /\ n \in Nat /\ k \in Nat /\ Len(u) = n + k
        /\ \A i \in 1 .. n : u[i] = s[i]
        /\ \A i \in n + 1 .. n + k : u[i] = t[i - n]
    OBVIOUS
  <1>2. PICK f : Profile(f, s, a, b)  BY DEF Leads
  <1>3. PICK g : Profile(g, t, b, c)  BY DEF Leads
  <1> HIDE DEF u, n, k
  <1>4. /\ f \in [1 .. n + 1 -> Level] /\ f[1] = a /\ f[n + 1] = b
        /\ \A i \in 1 .. n : Changes(s[i], f[i], f[i + 1])
    BY <1>2 DEF Profile, n
  <1>5. /\ g \in [1 .. k + 1 -> Level] /\ g[1] = b /\ g[k + 1] = c
        /\ \A i \in 1 .. k : Changes(t[i], g[i], g[i + 1])
    BY <1>3 DEF Profile, k
  <1> DEFINE h == [i \in 1 .. n + k + 1 |-> IF i <= n + 1 THEN f[i] ELSE g[i - n]]
  <1>6. h \in [1 .. n + k + 1 -> Level]
    <2>1. \A i \in 1 .. n + k + 1 : /\ i <= n + 1 => i \in 1 .. n + 1
                                    /\ ~(i <= n + 1) => i - n \in 1 .. k + 1
      BY <1>1
    <2>2. \A i \in 1 .. n + 1 : f[i] \in Level  BY <1>4
    <2>3. \A i \in 1 .. k + 1 : g[i] \in Level  BY <1>5
    <2>4. \A i \in 1 .. n + k + 1 : (IF i <= n + 1 THEN f[i] ELSE g[i - n]) \in Level
      BY <2>1, <2>2, <2>3
    <2>5. QED  BY <2>4
  <1>7. \A i \in 1 .. n + 1 : h[i] = f[i]
    <2>1. \A i \in 1 .. n + 1 : i \in 1 .. n + k + 1 /\ i <= n + 1  BY <1>1
    <2>2. QED  BY <2>1
  <1>8. \A i \in n + 1 .. n + k + 1 : h[i] = g[i - n]
    <2>1. \A i \in n + 1 .. n + k + 1 : i \in 1 .. n + k + 1  BY <1>1
    <2>2. h[n + 1] = f[n + 1] /\ (n + 1) - n = 1
      <3>1. n + 1 \in 1 .. n + 1 /\ (n + 1) - n = 1  BY <1>1
      <3> HIDE DEF h
      <3>2. QED  BY <1>7, <3>1
    <2>3. \A i \in n + 1 .. n + k + 1 : i # n + 1 => ~(i <= n + 1)  BY <1>1
    <2>4. \A i \in n + 1 .. n + k + 1 : i # n + 1 => h[i] = g[i - n]
      BY <2>1, <2>3
    <2> HIDE DEF h
    <2>5. QED  BY <1>4, <1>5, <2>2, <2>4
  <1> HIDE DEF h
  <1>9. h[1] = a /\ h[n + k + 1] = c
    <2>1. 1 \in 1 .. n + 1 /\ n + k + 1 \in n + 1 .. n + k + 1 /\ (n + k + 1) - n = k + 1
      BY <1>1
    <2>2. QED  BY <1>4, <1>5, <1>7, <1>8, <2>1
  <1>10. ASSUME NEW i \in 1 .. n + k PROVE Changes(u[i], h[i], h[i + 1])
    <2>1. CASE i \in 1 .. n
      <3>1. i \in 1 .. n + 1 /\ i + 1 \in 1 .. n + 1  BY <1>1, <2>1
      <3>2. u[i] = s[i] /\ h[i] = f[i] /\ h[i + 1] = f[i + 1]
        BY <1>1, <1>7, <2>1, <3>1
      <3>3. QED  BY <1>4, <2>1, <3>2
    <2>2. CASE i \notin 1 .. n
      <3> DEFINE j == i - n
      <3>1. /\ i \in n + 1 .. n + k /\ i \in n + 1 .. n + k + 1
            /\ i + 1 \in n + 1 .. n + k + 1 /\ j \in 1 .. k /\ (i + 1) - n = j + 1
        BY <1>1, <2>2
      <3>2. u[i] = t[j] /\ h[i] = g[j] /\ h[i + 1] = g[(i + 1) - n]
        BY <1>1, <1>8, <3>1
      <3> HIDE DEF j
      <3>3. QED  BY <1>5, <3>1, <3>2
    <2>3. QED  BY <2>1, <2>2
  <1>11. Profile(h, u, a, c)  BY <1>1, <1>6, <1>9, <1>10 DEF Profile
  <1>12. QED  BY <1>11 DEF Leads, u

\* The first item, and the others.
LEMMA LeadsFirst ==
    ASSUME NEW s \in Seq(Item), s # <<>>, NEW a \in Level, NEW c \in Level, Leads(s, a, c)
    PROVE  \E b \in Level : Changes(Head(s), a, b) /\ Leads(Tail(s), b, c)
  <1> DEFINE n == Len(s) - 1
             t == Tail(s)
  <1>1. /\ n \in Nat /\ Len(s) = n + 1 /\ t \in Seq(Item) /\ Len(t) = n /\ Head(s) = s[1]
        /\ \A i \in 1 .. n : t[i] = s[i + 1]
    OBVIOUS
  <1>2. PICK f : Profile(f, s, a, c)  BY DEF Leads
  <1> HIDE DEF n, t
  <1>3. /\ f \in [1 .. n + 2 -> Level] /\ f[1] = a /\ f[n + 2] = c
        /\ \A k \in 1 .. n + 1 : Changes(s[k], f[k], f[k + 1])
    <2>1. Len(s) + 1 = n + 2  BY <1>1
    <2>2. QED  BY <1>1, <1>2, <2>1 DEF Profile
  <1> DEFINE g == [i \in 1 .. n + 1 |-> f[i + 1]]
  <1>4. \A i \in 1 .. n + 1 : i + 1 \in 1 .. n + 2  BY <1>1
  <1>5. g \in [1 .. n + 1 -> Level]  BY <1>3, <1>4
  <1>6. 1 \in 1 .. n + 1 /\ 1 + 1 = 2 /\ n + 1 \in 1 .. n + 1 /\ n + 1 + 1 = n + 2
        /\ 2 \in 1 .. n + 2
    BY <1>1
  <1>7. g[1] = f[2] /\ g[n + 1] = c /\ f[2] \in Level
    <2>1. g[1] = f[1 + 1] /\ g[n + 1] = f[n + 1 + 1]  BY <1>6
    <2> HIDE DEF g
    <2>2. QED  BY <1>3, <1>6, <2>1
  <1>8. ASSUME NEW i \in 1 .. n PROVE Changes(t[i], g[i], g[i + 1])
    <2>1. i \in 1 .. n + 1 /\ i + 1 \in 1 .. n + 1  BY <1>1
    <2>2. g[i] = f[i + 1] /\ g[i + 1] = f[(i + 1) + 1]  BY <2>1
    <2> HIDE DEF g
    <2>3. QED  BY <1>1, <1>3, <2>1, <2>2
  <1> HIDE DEF g
  <1>9. Profile(g, t, f[2], c)  BY <1>1, <1>5, <1>7, <1>8 DEF Profile
  <1>10. Changes(s[1], a, f[2])  BY <1>3, <1>6
  <1>11. QED  BY <1>1, <1>7, <1>9, <1>10 DEF Leads, t

\* Items that leave the level as it is.
Flat == {item \in Inside : Deepens(item) = 0 /\ Open(item.text) = 0}

\* The characters that are no brace.
Letter == Char \ {"{", "}"}

\* What is a letter.
LEMMA Letters ==
    /\ {"w", "t", "o", "u", "q", "Q", ",", ";", "(", ")", "[", "]", "tab"} \subseteq Letter
    /\ {"{", "}"} \subseteq Char /\ Letter \subseteq Char
    /\ \A c \in Letter : Brace(c) = 0
  <1>1. /\ {"w", "t", "o", "u", "q", "Q", ",", ";", "(", ")", "[", "]", "tab"} \subseteq Letter
        /\ {"{", "}"} \subseteq Char /\ Letter \subseteq Char
    BY DEF Letter, Char
  <1>2. QED  BY <1>1, BraceFacts DEF Letter

\* The letters open no brace.
LEMMA PlainOne ==
    ASSUME NEW a \in Letter
    PROVE  <<a>> \in Text /\ Open(<<a>>) = 0
  BY Letters, OpenOne

\* Two letters open none.
LEMMA PlainTwo ==
    ASSUME NEW a \in Letter, NEW b \in Letter
    PROVE  <<a, b>> \in Text /\ Open(<<a, b>>) = 0
  <1>1. a \in Char /\ b \in Char /\ Brace(a) = 0 /\ Brace(b) = 0  BY Letters
  <1>2. QED  BY <1>1, OpenTwo

\* Three letters open none.
LEMMA PlainThree ==
    ASSUME NEW a \in Letter, NEW b \in Letter, NEW c \in Letter
    PROVE  <<a, b, c>> \in Text /\ Open(<<a, b, c>>) = 0
  <1>1. a \in Char /\ b \in Char /\ c \in Char /\ Brace(a) = 0 /\ Brace(b) = 0 /\ Brace(c) = 0
    BY Letters
  <1>2. QED  BY <1>1, OpenThree

\* Four letters open none.
LEMMA PlainFour ==
    ASSUME NEW a \in Letter, NEW b \in Letter, NEW c \in Letter, NEW d \in Letter
    PROVE  <<a, b, c, d>> \in Text /\ Open(<<a, b, c, d>>) = 0
  <1>1. /\ a \in Char /\ b \in Char /\ c \in Char /\ d \in Char
        /\ Brace(a) = 0 /\ Brace(b) = 0 /\ Brace(c) = 0 /\ Brace(d) = 0
    BY Letters
  <1>2. QED  BY <1>1, OpenFour

\* The texts without a brace that the visitors write.
Plain == {<<"w">>, <<"t">>, <<"o">>, <<"u">>, <<",">>, <<";">>, <<")">>, <<"]">>,
          <<"t", "w">>, <<"t", ";">>, <<"t", "(">>, <<"q", "Q">>, <<"w", "[">>, <<"w", "(">>,
          <<"t", "w", "(">>, <<"t", "w", ",">>, <<"[", "w", "]">>, <<"q", ")", ",", "Q">>}

\* The plain texts open none.
LEMMA PlainTexts ==
    \A text \in Plain : text \in Text /\ Open(text) = 0
  <1>1. {"w", "t", "o", "u", "q", "Q", ",", ";", "(", ")", "[", "]"} \subseteq Letter
    BY Letters
  <1>2. \A text \in {<<"w">>, <<"t">>, <<"o">>, <<"u">>, <<",">>, <<";">>, <<")">>, <<"]">>} :
            text \in Text /\ Open(text) = 0
    BY <1>1, PlainOne
  <1>3. \A text \in {<<"t", "w">>, <<"t", ";">>, <<"t", "(">>, <<"q", "Q">>, <<"w", "[">>,
                     <<"w", "(">>} : text \in Text /\ Open(text) = 0
    BY <1>1, PlainTwo
  <1>4. \A text \in {<<"t", "w", "(">>, <<"t", "w", ",">>, <<"[", "w", "]">>} :
            text \in Text /\ Open(text) = 0
    <2>1. "t" \in Letter /\ "w" \in Letter /\ "(" \in Letter /\ "," \in Letter
          /\ "[" \in Letter /\ "]" \in Letter
      BY <1>1
    <2>2. <<"t", "w", "(">> \in Text /\ Open(<<"t", "w", "(">>) = 0  BY <2>1, PlainThree
    <2>3. <<"t", "w", ",">> \in Text /\ Open(<<"t", "w", ",">>) = 0  BY <2>1, PlainThree
    <2>4. <<"[", "w", "]">> \in Text /\ Open(<<"[", "w", "]">>) = 0  BY <2>1, PlainThree
    <2>5. QED  BY <2>2, <2>3, <2>4
  <1>5. \A text \in {<<"q", ")", ",", "Q">>} : text \in Text /\ Open(text) = 0
    <2>1. "q" \in Letter /\ ")" \in Letter /\ "," \in Letter /\ "Q" \in Letter  BY <1>1
    <2>2. /\ <<"q", ")", ",", "Q">> \in Text /\ Open(<<"q", ")", ",", "Q">>) = 0
      BY <2>1, PlainFour
    <2>3. QED  BY <2>2
  <1>6. QED  BY <1>2, <1>3, <1>4, <1>5 DEF Plain

\* The empty text opens none.
LEMMA OpenEmpty == <<>> \in Text /\ Open(<<>>) = 0
  <1>1. <<>> \in Text /\ Len(<<>>) = 0  BY DEF Text
  <1>2. \A i \in 1 .. Len(<<>>) : Brace(<<>>[i]) = 0  BY <1>1
  <1>3. QED  BY <1>1, <1>2, OpenNothing

\* The items.
LEMMA DoFacts ==
    ASSUME NEW what \in {"goodLook", "deeper", "shallower", "stmts", "expr", "arg", "param",
                         "init"}
    PROVE  /\ Do(what) \in Inside /\ Do(what).what = what /\ Open(Do(what).text) = 0
           /\ what \notin {"deeper", "shallower"} => Do(what) \in Flat
  <1>1. <<>> \in Text /\ Open(<<>>) = 0  BY OpenEmpty
  <1>2. Do(what).what = what /\ Do(what).text = <<>>  BY DEF Do
  <1>3. Do(what) \in Inside  BY <1>1 DEF Do, Inside, Item, What
  <1>4. ASSUME what \notin {"deeper", "shallower"} PROVE Do(what) \in Flat
    <2>1. Deepens(Do(what)) = 0  BY <1>2, <1>4 DEF Deepens
    <2>2. QED  BY <1>1, <1>2, <1>3, <2>1 DEF Flat
  <1>5. QED  BY <1>1, <1>2, <1>3, <1>4

\* An item that writes a text.
LEMMA WriteFacts ==
    ASSUME NEW text \in Text
    PROVE  /\ W(text) \in Inside /\ W(text).what = "write" /\ W(text).text = text
           /\ Open(text) = 0 => W(text) \in Flat
  <1>1. W(text).what = "write" /\ W(text).text = text  BY DEF W
  <1>2. W(text) \in Inside  BY DEF W, Inside, Item, What
  <1>3. Deepens(W(text)) = 0  BY <1>1 DEF Deepens
  <1>4. QED  BY <1>1, <1>2, <1>3 DEF Flat

\* The items that leave the level as it is.
LEMMA FlatItems ==
    /\ {goodLook, Stmts, Expr, Arg, Param, Initializers} \subseteq Flat
    /\ \A text \in Plain : W(text) \in Flat
    /\ Flat \subseteq Inside /\ Inside \subseteq Item
  <1>1. {goodLook, Stmts, Expr, Arg, Param, Initializers} \subseteq Flat
    BY DoFacts DEF goodLook, Stmts, Expr, Arg, Param, Initializers
  <1>2. \A text \in Plain : W(text) \in Flat  BY PlainTexts, WriteFacts
  <1>3. QED  BY <1>1, <1>2 DEF Flat, Inside

\* A list of them changes nothing.
LEMMA FlatLeads ==
    ASSUME NEW list \in Seq(Flat), NEW x \in Nat
    PROVE  list \in Seq(Inside) /\ Leads(list, <<x, x>>, <<x, x>>)
  <1> DEFINE a == <<x, x>>
             n == Len(list)
             f == [k \in 1 .. n + 1 |-> a]
  <1>1. a \in Level /\ a[1] = x /\ a[2] = x  BY DEF Level
  <1>2. n \in Nat /\ \A k \in 1 .. n : list[k] \in Flat  OBVIOUS
  <1>3. ASSUME NEW item \in Flat PROVE Changes(item, a, a)
    <2>1. Deepens(item) = 0 /\ Open(item.text) = 0  BY DEF Flat
    <2>2. QED  BY <1>1, <2>1 DEF Changes
  <1> HIDE DEF a, n
  <1>4. 1 \in 1 .. n + 1 /\ n + 1 \in 1 .. n + 1
        /\ \A k \in 1 .. n : k \in 1 .. n + 1 /\ k + 1 \in 1 .. n + 1
    BY <1>2
  <1>5. /\ f \in [1 .. n + 1 -> Level] /\ \A k \in 1 .. n + 1 : f[k] = a
    BY <1>1
  <1> HIDE DEF f
  <1>6. Profile(f, list, a, a)
    <2>1. \A k \in 1 .. n : Changes(list[k], f[k], f[k + 1])  BY <1>2, <1>3, <1>4, <1>5
    <2>2. QED  BY <1>4, <1>5, <2>1 DEF Profile, n
  <1>7. list \in Seq(Inside)  BY FlatItems
  <1>8. QED  BY <1>6, <1>7 DEF Leads, a

\* One item.
LEMMA LeadsOne ==
    ASSUME NEW item \in Item, NEW a \in Level, NEW b \in Level, Changes(item, a, b)
    PROVE  Leads(<<item>>, a, b)
  <1> DEFINE s == <<item>>
             f == [k \in 1 .. 2 |-> IF k = 1 THEN a ELSE b]
  <1>1. Len(s) = 1 /\ s[1] = item  OBVIOUS
  <1>2. f \in [1 .. 2 -> Level] /\ f[1] = a /\ f[2] = b  OBVIOUS
  <1> HIDE DEF s, f
  <1>3. 1 + 1 = 2 /\ \A k \in 1 .. 1 : k = 1  OBVIOUS
  <1>4. Profile(f, s, a, b)  BY <1>1, <1>2, <1>3 DEF Profile
  <1>5. QED  BY <1>4 DEF Leads, s

\* ... in front of others.
LEMMA LeadsCons ==
    ASSUME NEW item \in Inside, NEW list \in Seq(Inside),
           NEW a \in Level, NEW b \in Level, NEW c \in Level,
           Changes(item, a, b), Leads(list, b, c)
    PROVE  <<item>> \o list \in Seq(Inside) /\ Leads(<<item>> \o list, a, c)
  <1>1. item \in Item /\ list \in Seq(Item)  BY FlatItems
  <1>2. Leads(<<item>>, a, b)  BY <1>1, LeadsOne
  <1>3. <<item>> \in Seq(Item) /\ <<item>> \o list \in Seq(Inside)  BY <1>1
  <1>4. QED  BY <1>1, <1>2, <1>3, LeadsOn

\* How braces and indentation change the level, from x, to a body and back.
LEMMA Nesting ==
    ASSUME NEW x \in Nat
    PROVE  LET up == <<x, x>>
               on == <<x, x + 1>>
               down == <<x + 1, x + 1>>
           IN  /\ up \in Level /\ on \in Level /\ down \in Level
               /\ \A text \in Text : /\ W(text) \in Inside
                                     /\ Open(text) = 1 => Changes(W(text), up, on)
                                     /\ Open(text) = -1 => Changes(W(text), on, up)
               /\ Deeper \in Inside /\ Changes(Deeper, on, down)
               /\ Shallower \in Inside /\ Changes(Shallower, down, on)
               /\ Stmts \in Inside /\ Changes(Stmts, down, down)
               /\ goodLook \in Inside /\ Changes(goodLook, on, on)
  <1> DEFINE up == <<x, x>>
             on == <<x, x + 1>>
             down == <<x + 1, x + 1>>
  <1>1. up \in Level /\ on \in Level /\ down \in Level  BY DEF Level
  <1>2. ASSUME NEW text \in Text
        PROVE  /\ W(text) \in Inside
               /\ Open(text) = 1 => Changes(W(text), up, on)
               /\ Open(text) = -1 => Changes(W(text), on, up)
    <2>1. W(text) \in Inside /\ W(text).what = "write" /\ W(text).text = text
      BY WriteFacts
    <2>2. Deepens(W(text)) = 0 /\ W(text).what \notin Node
      BY <2>1 DEF Deepens, Node
    <2>3. /\ up[1] = x /\ up[2] = x /\ on[1] = x /\ on[2] = x + 1
          /\ x = x + 0 /\ x = x + 1 + (-1)
      OBVIOUS
    <2> HIDE DEF up, on, down
    <2>4. QED  BY <2>1, <2>2, <2>3 DEF Changes
  <1>3. /\ Deeper \in Inside /\ Shallower \in Inside
        /\ Changes(Deeper, on, down) /\ Changes(Shallower, down, on)
    <2>1. /\ Deeper \in Inside /\ Deeper.what = "deeper" /\ Open(Deeper.text) = 0
          /\ Shallower \in Inside /\ Shallower.what = "shallower" /\ Open(Shallower.text) = 0
      BY DoFacts DEF Deeper, Shallower
    <2>2. /\ Deepens(Deeper) = 1 /\ Deeper.what \notin Node
          /\ Deepens(Shallower) = -1 /\ Shallower.what \notin Node
      BY <2>1 DEF Deepens, Node
    <2>3. QED  BY <2>1, <2>2 DEF Changes
  <1>4. /\ Stmts \in Inside /\ goodLook \in Inside
        /\ Changes(Stmts, down, down) /\ Changes(goodLook, on, on)
    <2>1. /\ Stmts \in Flat /\ goodLook \in Flat /\ Stmts \in Inside /\ goodLook \in Inside
      BY FlatItems
    <2>2. goodLook.what = "goodLook"  BY DEF goodLook, Do
    <2>3. goodLook.what \notin Node  BY <2>2 DEF Node
    <2>4. /\ Deepens(Stmts) = 0 /\ Open(Stmts.text) = 0
          /\ Deepens(goodLook) = 0 /\ Open(goodLook.text) = 0
      BY <2>1 DEF Flat
    <2>5. QED  BY <2>1, <2>3, <2>4 DEF Changes
  <1>5. QED  BY <1>1, <1>2, <1>3, <1>4

\* Six levels along five items.
LEMMA LeadsFive ==
    ASSUME NEW i1 \in Inside, NEW i2 \in Inside, NEW i3 \in Inside, NEW i4 \in Inside,
           NEW i5 \in Inside,
           NEW a \in Level, NEW b \in Level, NEW c \in Level, NEW d \in Level, NEW e \in Level,
           NEW z \in Level,
           Changes(i1, a, b), Changes(i2, b, c), Changes(i3, c, d), Changes(i4, d, e),
           Changes(i5, e, z)
    PROVE  <<i1, i2, i3, i4, i5>> \in Seq(Inside) /\ Leads(<<i1, i2, i3, i4, i5>>, a, z)
  <1> DEFINE s == <<i1, i2, i3, i4, i5>>
             f == <<a, b, c, d, e, z>>
  <1>1. /\ s \in Seq(Inside) /\ Len(s) = 5 /\ s[1] = i1 /\ s[2] = i2 /\ s[3] = i3
        /\ s[4] = i4 /\ s[5] = i5
    OBVIOUS
  <1>2. /\ f \in [1 .. 6 -> Level] /\ f[1] = a /\ f[2] = b /\ f[3] = c /\ f[4] = d
        /\ f[5] = e /\ f[6] = z
    OBVIOUS
  <1> HIDE DEF s, f
  <1>3. \A k \in 1 .. 5 : Changes(s[k], f[k], f[k + 1])
    <2>1. \A k \in 1 .. 5 : k = 1 \/ k = 2 \/ k = 3 \/ k = 4 \/ k = 5  OBVIOUS
    <2>2. 1 + 1 = 2 /\ 2 + 1 = 3 /\ 3 + 1 = 4 /\ 4 + 1 = 5 /\ 5 + 1 = 6  OBVIOUS
    <2>3. QED  BY <1>1, <1>2, <2>1, <2>2
  <1>4. 5 + 1 = 6  OBVIOUS
  <1>5. Profile(f, s, a, z)  BY <1>1, <1>2, <1>3, <1>4 DEF Profile
  <1>6. QED  BY <1>1, <1>5 DEF Leads, s

\* A body goes one level down and comes back; the one of a function is not indented.
LEMMA BodyLeads ==
    ASSUME NEW x \in Nat
    PROVE  /\ Body \in Seq(Inside) /\ Leads(Body, <<x, x>>, <<x, x>>)
           /\ \A begin, end \in Text : Open(begin) = 1 /\ Open(end) = -1 =>
                  LET body == <<W(begin), Deeper, Stmts, Shallower, W(end)>>
                  IN  body \in Seq(Inside) /\ Leads(body, <<x, x>>, <<x, x>>)
  <1> DEFINE up == <<x, x>>
             on == <<x, x + 1>>
             down == <<x + 1, x + 1>>
  <1>1. /\ up \in Level /\ on \in Level /\ down \in Level
        /\ \A text \in Text : /\ W(text) \in Inside
                              /\ Open(text) = 1 => Changes(W(text), up, on)
                              /\ Open(text) = -1 => Changes(W(text), on, up)
        /\ Deeper \in Inside /\ Changes(Deeper, on, down)
        /\ Shallower \in Inside /\ Changes(Shallower, down, on)
        /\ Stmts \in Inside /\ Changes(Stmts, down, down)
        /\ goodLook \in Inside /\ Changes(goodLook, on, on)
    BY Nesting
  <1> HIDE DEF up, on, down
  <1>2. ASSUME NEW begin \in Text, NEW end \in Text, Open(begin) = 1, Open(end) = -1
        PROVE  LET body == <<W(begin), Deeper, Stmts, Shallower, W(end)>>
               IN  body \in Seq(Inside) /\ Leads(body, up, up)
    <2>1. /\ W(begin) \in Inside /\ Changes(W(begin), up, on)
          /\ W(end) \in Inside /\ Changes(W(end), on, up)
      BY <1>1, <1>2
    <2>2. QED  BY <1>1, <2>1, LeadsFive
  <1>3. Body \in Seq(Inside) /\ Leads(Body, up, up)
    <2> DEFINE begin == W(<<"{">>)
               end == W(<<"}">>)
    <2>1. <<"{">> \in Text /\ <<"}">> \in Text /\ Open(<<"{">>) = 1 /\ Open(<<"}">>) = -1
      BY Letters, BraceFacts, OpenOne
    <2>2. /\ begin \in Inside /\ Changes(begin, up, on)
          /\ end \in Inside /\ Changes(end, on, up)
      BY <1>1, <2>1
    <2>3. Body = <<begin, Deeper, Stmts, Shallower, goodLook, end>>  BY DEF Body
    <2> HIDE DEF begin, end
    <2> DEFINE s == <<begin, Deeper, Stmts, Shallower, goodLook>>
    <2>4. s \in Seq(Inside) /\ Leads(s, up, on)  BY <1>1, <2>2, LeadsFive
    <2>5. Body = s \o <<end>> /\ <<end>> \in Seq(Inside)  BY <1>1, <2>2, <2>3
    <2>6. Leads(<<end>>, on, up)
      <3>1. end \in Item  BY <2>2, FlatItems
      <3>2. QED  BY <1>1, <2>2, <3>1, LeadsOne
    <2>7. s \in Seq(Item) /\ <<end>> \in Seq(Item)  BY <2>4, <2>5, FlatItems
    <2> HIDE DEF s
    <2>8. Leads(s \o <<end>>, up, up)  BY <1>1, <2>4, <2>6, <2>7, LeadsOn
    <2>9. Body \in Seq(Inside)  BY <2>4, <2>5
    <2>10. QED  BY <2>5, <2>8, <2>9
  <1>4. QED  BY <1>2, <1>3 DEF up

\* Lists that end at the level they begin at, if both numbers agree there.
Even == {list \in Seq(Inside) : \A x \in Nat : Leads(list, <<x, x>>, <<x, x>>)}

\* Which lists are even.
LEMMA EvenLists ==
    /\ Seq(Flat) \subseteq Even /\ Body \in Even
    /\ \A s, t \in Even : s \o t \in Even
  <1>1. Seq(Flat) \subseteq Even  BY FlatLeads DEF Even
  <1>2. Body \in Even  BY BodyLeads DEF Even
  <1>3. ASSUME NEW s \in Even, NEW t \in Even PROVE s \o t \in Even
    <2>1. s \in Seq(Inside) /\ t \in Seq(Inside)  BY DEF Even
    <2>2. s \in Seq(Item) /\ t \in Seq(Item)  BY <2>1, FlatItems
    <2>3. ASSUME NEW x \in Nat PROVE Leads(s \o t, <<x, x>>, <<x, x>>)
      <3> DEFINE a == <<x, x>>
      <3>1. a \in Level /\ Leads(s, a, a) /\ Leads(t, a, a)  BY DEF Even, Level
      <3> HIDE DEF a
      <3>2. Leads(s \o t, a, a)  BY <2>2, <3>1, LeadsOn
      <3>3. QED  BY <3>2 DEF a
    <2>4. s \o t \in Seq(Inside)  BY <2>1
    <2>5. QED  BY <2>3, <2>4 DEF Even
  <1>4. QED  BY <1>1, <1>2, <1>3

\* Short lists of items that change nothing.
LEMMA FlatTuples ==
    ASSUME NEW a \in Flat, NEW b \in Flat, NEW c \in Flat, NEW d \in Flat, NEW e \in Flat
    PROVE  /\ <<>> \in Even /\ <<a>> \in Even /\ <<a, b>> \in Even /\ <<a, b, c>> \in Even
           /\ <<a, b, c, d>> \in Even /\ <<a, b, c, d, e>> \in Even
  <1>1. <<>> \in Seq(Flat)  OBVIOUS
  <1>2. /\ <<a>> \in Seq(Flat) /\ <<a, b>> \in Seq(Flat) /\ <<a, b, c>> \in Seq(Flat)
        /\ <<a, b, c, d>> \in Seq(Flat) /\ <<a, b, c, d, e>> \in Seq(Flat)
    OBVIOUS
  <1>3. QED  BY <1>1, <1>2, EvenLists

\* The lists of the expressions.
LEMMA ExpressionsAreEven ==
    /\ \A text \in Leaf : <<W(text)>> \in Even /\ <<W(text), W(<<",">>)>> \in Even
    /\ <<Expr, W(<<"o">>), Expr>> \in Even /\ <<W(<<"u">>), Expr>> \in Even
    /\ \A list \in Optional(Initializers), expr \in Optional(Expr) : list \o expr \in Even
    /\ \A n \in Nat : /\ <<W(<<"w", "[">>)>> \o Times(n, Expr) \o <<W(<<"]">>)>> \in Even
                      /\ <<W(<<"w", "(">>)>> \o Times(n, Arg) \o <<W(<<")">>)>> \in Even
  <1>1. \A text \in Leaf : W(text) \in Flat  BY FlatItems DEF Leaf, Plain
  <1>2. /\ W(<<",">>) \in Flat /\ W(<<"o">>) \in Flat /\ W(<<"u">>) \in Flat
        /\ W(<<"w", "[">>) \in Flat
        /\ W(<<"]">>) \in Flat /\ W(<<"w", "(">>) \in Flat /\ W(<<")">>) \in Flat
    BY FlatItems DEF Plain
  <1>3. Expr \in Flat /\ Arg \in Flat  BY FlatItems
  <1>4. ASSUME NEW n \in Nat, NEW a \in Flat, NEW b \in Flat, NEW c \in Flat
        PROVE  <<a>> \o Times(n, b) \o <<c>> \in Even
    <2>1. Times(n, b) \in Seq(Flat)  BY DEF Times
    <2>2. <<a>> \o Times(n, b) \o <<c>> \in Seq(Flat)  BY <2>1
    <2>3. QED  BY <2>2, EvenLists
  <1>5. ASSUME NEW list \in Optional(Initializers), NEW expr \in Optional(Expr)
        PROVE  list \o expr \in Even
    <2>1. Initializers \in Flat  BY FlatItems
    <2>2. list \in Even /\ expr \in Even  BY <1>3, <2>1, FlatTuples DEF Optional
    <2>3. QED  BY <2>2, EvenLists
  <1>6. QED  BY <1>1, <1>2, <1>3, <1>4, <1>5, FlatTuples

\* The lists of the declarations.
LEMMA DeclarationsAreEven ==
    /\ \A items \in Variable : items \in Even
    /\ <<goodLook, W(<<"t", "w", ",">>)>> \in Even /\ <<goodLook, W(<<"t", "w">>)>> \in Even
  <1> DEFINE name == <<goodLook, W(<<"t", "w">>)>>
             size == W(<<"[", "w", "]">>)
             expr == <<W(<<"o">>), Expr>>
             list == <<W(<<"o">>), Initializers>>
             semi == <<W(<<";">>)>>
             whole(dim, init) == name \o dim \o init \o semi
  <1>1. goodLook \in Flat /\ Expr \in Flat /\ Initializers \in Flat  BY FlatItems
  <1>2. /\ W(<<"t", "w">>) \in Flat /\ W(<<";">>) \in Flat /\ W(<<"[", "w", "]">>) \in Flat
        /\ W(<<"o">>) \in Flat /\ W(<<"t", "w", ",">>) \in Flat
    BY FlatItems DEF Plain
  <1>3. /\ name \in Even /\ expr \in Even /\ list \in Even /\ semi \in Even
        /\ <<>> \in Even /\ <<size>> \in Even
    BY <1>1, <1>2, FlatTuples
  <1>4. <<goodLook, W(<<"t", "w", ",">>)>> \in Even /\ <<goodLook, W(<<"t", "w">>)>> \in Even
    BY <1>1, <1>2, FlatTuples
  <1>5. Variable = {whole(dim, init) :
                       dim \in Optional(size), init \in {<<>>, expr, list}}
    BY DEF Variable
  <1> HIDE DEF name, size, expr, list, semi
  <1>6. ASSUME NEW items \in Variable PROVE items \in Even
    <2>1. PICK dim \in Optional(size), init \in {<<>>, expr, list} :
                   items = whole(dim, init)
      <3> HIDE DEF whole
      <3>1. QED  BY <1>5, <1>6
    <2>2. dim \in Even /\ init \in Even  BY <1>3 DEF Optional
    <2>3. name \o dim \o init \in Even  BY <1>3, <2>2, EvenLists
    <2>4. QED  BY <1>3, <2>1, <2>3, EvenLists
  <1>7. QED  BY <1>4, <1>6

\* The lists of the statements.
LEMMA StatementsAreEven ==
    \A items \in UNION {Variable, Return, Jump, ExprStmt, For, While, If} : items \in Even
  <1> DEFINE begin == <<goodLook, W(<<"t", "(">>)>>
             semi == <<W(<<";">>)>>
             end == <<W(<<")">>)>>
             test == <<goodLook, W(<<"t", "(">>), Expr, W(<<")">>)>>
             word == <<goodLook, W(<<"t">>)>>
             Loop(e1, e2, e3) == begin \o e1 \o semi \o e2 \o semi \o e3 \o end \o Body
  <1>1. goodLook \in Flat /\ Expr \in Flat  BY FlatItems
  <1>2. /\ W(<<"t">>) \in Flat /\ W(<<";">>) \in Flat /\ W(<<"t", ";">>) \in Flat
        /\ W(<<"t", "(">>) \in Flat /\ W(<<")">>) \in Flat
    BY FlatItems DEF Plain
  <1>3. begin \in Even /\ semi \in Even /\ end \in Even /\ test \in Even /\ word \in Even
    BY <1>1, <1>2, FlatTuples
  <1>4. Body \in Even /\ <<>> \in Even /\ \A e \in Optional(Expr) : e \in Even
    BY <1>1, EvenLists, FlatTuples DEF Optional
  <1>5. <<goodLook, W(<<"t", ";">>)>> \in Even /\ <<goodLook, Expr, W(<<";">>)>> \in Even
    BY <1>1, <1>2, FlatTuples
  <1>6. \A items \in Variable : items \in Even  BY DeclarationsAreEven
  <1>7. \A items \in Jump \cup ExprStmt : items \in Even  BY <1>5 DEF Jump, ExprStmt
  <1>8. Return = {word \o e \o semi : e \in Optional(Expr)}  BY DEF Return
  <1>9. For = {Loop(e1, e2, e3) : e1 \in Optional(Expr), e2 \in Optional(Expr),
                                  e3 \in Optional(Expr)}
    BY DEF For
  <1>10. While = {test \o Body}  BY DEF While
  <1>11. If = {test \o Body \o else : else \in {<<>>, word \o Body}}  BY DEF If
  <1> HIDE DEF begin, semi, end, test, word
  <1>12. ASSUME NEW items \in Return PROVE items \in Even
    <2>1. PICK e \in Optional(Expr) : items = word \o e \o semi  BY <1>8, <1>12
    <2>2. QED  BY <1>3, <1>4, <2>1, EvenLists
  <1>13. ASSUME NEW items \in For PROVE items \in Even
    <2>1. PICK e1 \in Optional(Expr), e2 \in Optional(Expr), e3 \in Optional(Expr) :
                   items = Loop(e1, e2, e3)
      <3> HIDE DEF Loop
      <3>1. QED  BY <1>9, <1>13
    <2>2. begin \o e1 \o semi \o e2 \in Even  BY <1>3, <1>4, EvenLists
    <2>3. begin \o e1 \o semi \o e2 \o semi \o e3 \o end \in Even
      BY <1>3, <1>4, <2>2, EvenLists
    <2>4. QED  BY <1>4, <2>1, <2>3, EvenLists
  <1>14. ASSUME NEW items \in While PROVE items \in Even
    BY <1>3, <1>4, <1>10, <1>14, EvenLists
  <1>15. ASSUME NEW items \in If PROVE items \in Even
    <2>1. PICK else \in {<<>>, word \o Body} : items = test \o Body \o else
      BY <1>11, <1>15
    <2>2. else \in Even  BY <1>3, <1>4, EvenLists
    <2>3. QED  BY <1>3, <1>4, <2>1, <2>2, EvenLists
  <1>16. QED  BY <1>6, <1>7, <1>12, <1>13, <1>14, <1>15

\* The stack of the visitors: the program's components are its last item.
LEMMA Stack ==
    ASSUME NEW s \in Seq(Inside), NEW list \in Seq(Inside), NEW last
    PROVE  /\ Append(s, last) # <<>>
           /\ s = <<>> => Head(Append(s, last)) = last /\ Tail(Append(s, last)) = <<>>
           /\ s # <<>> => /\ Head(Append(s, last)) = Head(s) /\ Head(s) \in Inside
                          /\ Tail(s) \in Seq(Inside) /\ list \o Tail(s) \in Seq(Inside)
                          /\ list \o Tail(Append(s, last)) = Append(list \o Tail(s), last)
  <1> DEFINE all == Append(s, last)
             n == Len(s)
  <1>1. /\ n \in Nat /\ Len(all) = n + 1 /\ all[n + 1] = last /\ all # <<>>
        /\ \A i \in 1 .. n : all[i] = s[i]
    OBVIOUS
  <1>2. ASSUME s = <<>> PROVE Head(all) = last /\ Tail(all) = <<>>
    BY <1>2
  <1>3. ASSUME s # <<>>
        PROVE  /\ Head(all) = Head(s) /\ Head(s) \in Inside
               /\ Tail(s) \in Seq(Inside) /\ list \o Tail(s) \in Seq(Inside)
               /\ list \o Tail(all) = Append(list \o Tail(s), last)
    <2> DEFINE t == Tail(s)
    <2>1. /\ Head(s) \in Inside /\ t \in Seq(Inside) /\ list \o t \in Seq(Inside)
          /\ Head(s) = s[1] /\ n # 0
      BY <1>3
    <2>2. Head(all) = Head(s)
      <3>1. 1 \in 1 .. n /\ Head(all) = all[1]  BY <1>1, <2>1
      <3> HIDE DEF all
      <3>2. QED  BY <1>1, <2>1, <3>1
    <2>3. Tail(all) = Append(t, last)  BY <1>3
    <2>4. list \o Append(t, last) = Append(list \o t, last)
      BY <2>1
    <2>5. QED  BY <2>1, <2>2, <2>3, <2>4
  <1>4. QED  BY <1>1, <1>2, <1>3

-----------------------------------------------------------------------------
(* The inductive invariant.                                                *)

\* The visitors under way come back to the ground.
WorkOK ==
    todo # <<>> => \E s \in Seq(Inside) : /\ todo = Append(s, Components)
                                          /\ Leads(s, <<deepth, Open(meant)>>, Ground)

\* The buffer delivers what was written; once the program is visited, it is empty.
BufferOK ==
    /\ buf \in [cells : Cells, head : 1 .. Capacity + 1, size : 0 .. Capacity, out : Text]
    /\ meant \in Text /\ Delivers(buf, meant)
    /\ IF todo = <<>> THEN buf.size = 0 ELSE buf \in Buffer

CountersOK ==
    /\ argNum \in Int /\ parmNum \in Int
    /\ visits \in 0 .. MaxVisits /\ compound \subseteq {"arg", "index", "init"}

IInv == deepth \in Nat /\ CountersOK /\ BufferOK /\ WorkOK

\* The item at the top of the stack, and where the others lead.
LEMMA Top ==
    ASSUME IInv, todo # <<>>, Head(todo).what # "components"
    PROVE  \E s \in Seq(Inside), b \in Level :
               /\ s # <<>> /\ todo = Append(s, Components) /\ Head(s) = Head(todo)
               /\ Changes(Head(todo), <<deepth, Open(meant)>>, b) /\ Leads(Tail(s), b, Ground)
  <1> DEFINE a == <<deepth, Open(meant)>>
  <1>1. PICK s \in Seq(Inside) : todo = Append(s, Components) /\ Leads(s, a, Ground)
    BY DEF IInv, WorkOK
  <1>2. a \in Level /\ Ground \in Level
    <2>1. deepth \in Nat /\ Open(meant) \in Int  BY OpenConcat DEF IInv, BufferOK
    <2>2. QED  BY <2>1 DEF Level, Ground
  <1>3. s # <<>>
    <2>1. Components.what = "components"  BY DEF Components, Do
    <2>2. s = <<>> => Head(todo) = Components  BY <1>1, Stack
    <2>3. QED  BY <2>1, <2>2
  <1>4. Head(todo) = Head(s)  BY <1>1, <1>3, Stack
  <1>5. s \in Seq(Item)  BY FlatItems
  <1> HIDE DEF a
  <1>6. PICK b \in Level : Changes(Head(s), a, b) /\ Leads(Tail(s), b, Ground)
    BY <1>1, <1>2, <1>3, <1>5, LeadsFirst
  <1>7. QED  BY <1>1, <1>3, <1>4, <1>6 DEF a

\* A visitor is called that comes back to the level of its node.
LEMMA NodeVisited ==
    ASSUME IInv, NEW what \in Node, At(what), NEW items \in Even, Visit(items),
           UNCHANGED <<deepth, meant>>
    PROVE  WorkOK' /\ todo' # <<>> /\ todo # <<>>
  <1> DEFINE a == <<deepth, Open(meant)>>
  <1>1. todo # <<>> /\ Head(todo).what \in Node /\ Head(todo).what # "components"
    BY DEF At, Node
  <1>2. PICK s \in Seq(Inside), b \in Level :
               /\ s # <<>> /\ todo = Append(s, Components) /\ Head(s) = Head(todo)
               /\ Changes(Head(todo), a, b) /\ Leads(Tail(s), b, Ground)
    BY <1>1, Top
  <1>3. Deepens(Head(todo)) = 0 /\ Open(Head(todo).text) = 0
    <2>1. Head(todo) \in Inside  BY <1>2
    <2>2. Head(todo).text = <<>>  BY <1>1, <2>1 DEF Inside, Item, Node
    <2>3. QED  BY <1>1, <2>2, OpenEmpty DEF Deepens, Node
  <1>4. deepth \in Nat /\ Open(meant) \in Int
    BY OpenConcat DEF IInv, BufferOK
  <1>5. Leads(items, a, a) /\ a \in Level /\ b = a
    <2>1. a[1] = deepth /\ a[2] = Open(meant)  OBVIOUS
    <2>2. b = <<b[1], b[2]>>  BY DEF Level
    <2>3. b[1] = deepth + 0 /\ b[2] = Open(meant) + 0 /\ deepth = Open(meant)
      BY <1>1, <1>2, <1>3, <2>1 DEF Changes
    <2>4. b = a  BY <1>4, <2>2, <2>3
    <2>5. QED  BY <1>4, <2>3, <2>4 DEF Even, Level
  <1>6. items \in Seq(Inside)  BY DEF Even
  <1>7. /\ todo' = Append(items \o Tail(s), Components)
        /\ items \o Tail(s) \in Seq(Inside) /\ Tail(s) \in Seq(Inside)
    <2>1. todo' = items \o Tail(Append(s, Components))  BY <1>2 DEF Visit
    <2>2. /\ items \o Tail(Append(s, Components)) = Append(items \o Tail(s), Components)
          /\ items \o Tail(s) \in Seq(Inside) /\ Tail(s) \in Seq(Inside)
      <3>1. s # <<>>  BY <1>2
      <3>2. Tail(s) \in Seq(Inside)  BY <3>1
      <3>3. items \o Tail(s) \in Seq(Inside)  BY <1>6, <3>2
      <3>4. items \o Tail(Append(s, Components)) = Append(items \o Tail(s), Components)
        <4>1. Tail(Append(s, Components)) = Append(Tail(s), Components)  BY <3>1
        <4>2. items \o Append(Tail(s), Components) = Append(items \o Tail(s), Components)
          BY <1>6, <3>2
        <4>3. QED  BY <4>1, <4>2
      <3>5. QED  BY <3>2, <3>3, <3>4
    <2>3. QED  BY <2>1, <2>2
  <1>8. a' = a  OBVIOUS
  <1> HIDE DEF a
  <1>9. Leads(items \o Tail(s), a, Ground)
    <2>1. items \in Seq(Item) /\ Tail(s) \in Seq(Item) /\ Ground \in Level
      BY <1>6, <1>7, FlatItems DEF Ground, Level
    <2>2. Leads(Tail(s), a, Ground)  BY <1>2, <1>5
    <2>3. QED  BY <1>5, <2>1, <2>2, LeadsOn
  <1>10. WorkOK'
    <2>1. Leads(items \o Tail(s), a', Ground)  BY <1>8, <1>9
    <2>2. QED  BY <1>7, <2>1 DEF WorkOK, a
  <1>11. todo' # <<>>  BY <1>7
  <1>12. QED  BY <1>1, <1>10, <1>11

\* A function or a global is visited, and behind it the other components.
LEMMA ComponentVisited ==
    ASSUME IInv, At("components"), NEW items \in Even,
           Visit(Append(items, Components)), UNCHANGED <<deepth, meant>>
    PROVE  WorkOK' /\ todo' # <<>> /\ todo # <<>>
  <1> DEFINE a == <<deepth, Open(meant)>>
  <1>1. todo # <<>>  BY DEF At
  <1>2. PICK s \in Seq(Inside) : todo = Append(s, Components) /\ Leads(s, a, Ground)
    BY <1>1 DEF IInv, WorkOK
  <1>3. s = <<>>
    <2>1. s # <<>> => Head(todo) \in Inside  BY <1>2, Stack
    <2>2. QED  BY <2>1 DEF At, Inside
  <1>4. a \in Level /\ Ground \in Level
    <2>1. deepth \in Nat /\ Open(meant) \in Int  BY OpenConcat DEF IInv, BufferOK
    <2>2. QED  BY <2>1 DEF Level, Ground
  <1>5. a = Ground
    <2> HIDE DEF a
    <2>1. QED  BY <1>2, <1>3, <1>4, LeadsNowhere
  <1>6. items \in Seq(Inside) /\ Leads(items, Ground, Ground)
    BY DEF Even, Ground
  <1>7. todo' = Append(items, Components)
    <2>1. Tail(todo) = <<>>  BY <1>2, <1>3, Stack
    <2>2. todo' = Append(items, Components) \o <<>>  BY <2>1 DEF Visit
    <2>3. Append(items, Components) \in Seq(Inside \cup {Components})  BY <1>6
    <2>4. QED  BY <2>2, <2>3
  <1>8. Leads(items, a', Ground)  BY <1>5, <1>6
  <1> HIDE DEF a
  <1>9. WorkOK'  BY <1>6, <1>7, <1>8 DEF WorkOK, a
  <1>10. todo' # <<>>  BY <1>6, <1>7
  <1>11. QED  BY <1>1, <1>9, <1>10

\* What is no visit is done.
LEMMA ItemDone ==
    ASSUME IInv, todo # <<>>, Head(todo).what \notin Node \cup {"components"}, Visit(<<>>),
           deepth' = deepth + Deepens(Head(todo)),
           Open(meant') = Open(meant) + Open(Head(todo).text)
    PROVE  WorkOK' /\ todo' # <<>> /\ deepth' \in Nat
  <1> DEFINE a == <<deepth, Open(meant)>>
  <1>1. PICK s \in Seq(Inside), b \in Level :
               /\ s # <<>> /\ todo = Append(s, Components) /\ Head(s) = Head(todo)
               /\ Changes(Head(todo), a, b) /\ Leads(Tail(s), b, Ground)
    BY Top
  <1>2. a' = b /\ deepth' \in Nat
    <2>1. a[1] = deepth /\ a[2] = Open(meant)  OBVIOUS
    <2>2. b = <<b[1], b[2]>> /\ b[1] \in Nat  BY DEF Level
    <2>3. b[1] = deepth' /\ b[2] = Open(meant')  BY <1>1, <2>1 DEF Changes
    <2>4. QED  BY <2>2, <2>3
  <1>3. todo' = Append(Tail(s), Components) /\ Tail(s) \in Seq(Inside)
    <2>1. <<>> \in Seq(Inside)  OBVIOUS
    <2>2. todo' = Append(<<>> \o Tail(s), Components) /\ Tail(s) \in Seq(Inside)
      BY <1>1, <2>1, Stack DEF Visit
    <2>3. <<>> \o Tail(s) = Tail(s)  BY <2>2
    <2>4. QED  BY <2>2, <2>3
  <1> HIDE DEF a
  <1>4. WorkOK'
    <2>1. Leads(Tail(s), a', Ground)  BY <1>1, <1>2
    <2>2. QED  BY <1>3, <2>1 DEF WorkOK, a
  <1>5. todo' # <<>>  BY <1>3
  <1>6. QED  BY <1>2, <1>4, <1>5

\* The invariant holds at the start.
LEMMA InitInvariant == Init => IInv
  <1> SUFFICES ASSUME Init PROVE IInv
    OBVIOUS
  <1>1. deepth \in Nat /\ CountersOK
    BY BoundsAssumption DEF Init, CountersOK
  <1>2. BufferOK
    <2> DEFINE cells == Times(Capacity, NoChar)
    <2>1. Capacity \in Nat \ {0} /\ "0" \in Char  BY CapacityAssumption DEF Char
    <2>2. cells \in Cells  BY <2>1 DEF Times, NoChar, Cells
    <2>3. buf = [cells |-> cells, head |-> 1, size |-> 0, out |-> <<>>] /\ meant = <<>>
      BY DEF Init
    <2> HIDE DEF cells
    <2>4. <<>> \in Text  BY OpenEmpty
    <2>5. /\ buf \in [cells : Cells, head : 1 .. Capacity + 1, size : 0 .. Capacity, out : Text]
          /\ buf.size = buf.head - 1
      <3>1. 1 \in 1 .. Capacity + 1 /\ 0 \in 0 .. Capacity /\ 0 = 1 - 1  BY <2>1
      <3>2. QED  BY <2>2, <2>3, <2>4, <3>1
    <2>6. DeliveredBy(buf) = <<>>
      <3>1. SubSeq(cells, 1, 0) \in Text /\ Len(SubSeq(cells, 1, 0)) = 0
        BY <2>1, <2>2, CellsPrefix
      <3>2. SubSeq(cells, 1, 0) = <<>>  BY <3>1 DEF Text
      <3>3. DeliveredBy(buf) = <<>> \o SubSeq(cells, 1, 0)  BY <2>3 DEF DeliveredBy
      <3>4. QED  BY <3>2, <3>3
    <2>7. todo # <<>>  BY DEF Init
    <2>8. QED  BY <2>3, <2>4, <2>5, <2>6, <2>7 DEF BufferOK, Delivers, Buffer
  <1>3. WorkOK
    <2>1. <<>> \in Seq(Inside) /\ todo = Append(<<>>, Components)  BY DEF Init
    <2>2. <<deepth, Open(meant)>> = Ground /\ Ground \in Level
      BY OpenEmpty DEF Init, Ground, Level
    <2>3. Leads(<<>>, <<deepth, Open(meant)>>, Ground)  BY <2>2, LeadsNowhere
    <2>4. QED  BY <2>1, <2>3 DEF WorkOK
  <1>4. QED  BY <1>1, <1>2, <1>3 DEF IInv

\* A text is written.
LEMMA TextWritten ==
    ASSUME BufferOK, todo # <<>>, todo' # <<>>, NEW text \in Text, write(text)
    PROVE  BufferOK' /\ Open(meant') = Open(meant) + Open(text)
  <1>1. buf \in Buffer /\ meant \in Text /\ Delivers(buf, meant)  BY DEF BufferOK
  <1>2. buf' = Written(buf, text) /\ meant' = meant \o text  BY DEF write
  <1>3. buf' \in Buffer /\ meant' \in Text /\ Delivers(buf', meant')
    BY <1>1, <1>2, WrittenDelivers
  <1>4. Open(meant') = Open(meant) + Open(text)  BY <1>1, <1>2, OpenConcat
  <1>5. QED  BY <1>3, <1>4 DEF BufferOK, Buffer

\* No text is written.
LEMMA NothingWritten ==
    ASSUME BufferOK, todo # <<>>, todo' # <<>>, Unwritten
    PROVE  BufferOK' /\ meant' = meant
  BY DEF BufferOK, Unwritten

\* The end of the visit empties the buffer.
LEMMA ProgramFinished ==
    ASSUME BufferOK, todo # <<>>, todo' = <<>>, FinishProgram
    PROVE  BufferOK'
  <1> DEFINE n == buf.size
  <1>1. buf \in Buffer /\ meant \in Text /\ Delivers(buf, meant)  BY DEF BufferOK
  <1>2. /\ buf.cells \in Cells /\ buf.head \in 1 .. Capacity + 1 /\ n \in 0 .. Capacity
        /\ buf.out \in Text /\ Capacity \in Nat
    BY <1>1, CapacityAssumption DEF Buffer
  <1>3. DeliveredBy(buf) \in Text  BY <1>1, MakeRoomFacts
  <1>4. meant' = meant  BY DEF FinishProgram
  <1>5. CASE n = 0
    <2>1. buf' = buf  BY <1>5 DEF FinishProgram
    <2>2. QED  BY <1>1, <1>4, <1>5, <2>1 DEF BufferOK, Buffer
  <1>6. CASE n # 0
    <2>1. buf' = [buf EXCEPT !.out = DeliveredBy(buf), !.size = 0]
      BY <1>6 DEF FinishProgram, DeliveredBy
    <2>2. 0 \in 0 .. Capacity  BY <1>2
    <2>3. /\ buf' \in [cells : Cells, head : 1 .. Capacity + 1, size : 0 .. Capacity, out : Text]
          /\ buf'.cells = buf.cells /\ buf'.size = 0 /\ buf'.out = DeliveredBy(buf)
      <3> HIDE DEF n
      <3>1. QED  BY <1>1, <1>3, <2>1, <2>2 DEF Buffer
    <2>4. DeliveredBy(buf') = DeliveredBy(buf)
      <3>1. SubSeq(buf.cells, 1, 0) \in Text /\ Len(SubSeq(buf.cells, 1, 0)) = 0
        BY <1>2, <2>2, CellsPrefix
      <3>2. SubSeq(buf.cells, 1, 0) = <<>>  BY <3>1 DEF Text
      <3>3. DeliveredBy(buf') = buf'.out \o <<>>  BY <2>3, <3>2 DEF DeliveredBy
      <3>4. QED  BY <1>3, <2>3, <3>3 DEF Text
    <2>5. QED  BY <1>1, <1>4, <2>3, <2>4 DEF BufferOK, Delivers
  <1>7. QED  BY <1>5, <1>6

\* Each visitor that is called keeps the invariant.
LEMMA NodeKeeps ==
    ASSUME IInv, NEW what \in Node, At(what), NEW items \in Even, Visit(items),
           Unwritten, UNCHANGED deepth, CountersOK'
    PROVE  IInv'
  <1>1. BufferOK /\ deepth \in Nat  BY DEF IInv
  <1>2. UNCHANGED <<deepth, meant>>  BY DEF Unwritten
  <1>3. WorkOK' /\ todo' # <<>> /\ todo # <<>>  BY <1>2, NodeVisited
  <1>4. BufferOK'  BY <1>1, <1>3, NothingWritten
  <1>5. QED  BY <1>1, <1>3, <1>4 DEF IInv

\* The visit of a component keeps it too.
LEMMA ComponentKeeps ==
    ASSUME IInv, At("components"), NEW items \in Even,
           Visit(Append(items, Components)), Unwritten, UNCHANGED deepth, CountersOK'
    PROVE  IInv'
  <1>1. BufferOK /\ deepth \in Nat  BY DEF IInv
  <1>2. UNCHANGED <<deepth, meant>>  BY DEF Unwritten
  <1>3. WorkOK' /\ todo' # <<>> /\ todo # <<>>  BY <1>2, ComponentVisited
  <1>4. BufferOK'  BY <1>1, <1>3, NothingWritten
  <1>5. QED  BY <1>1, <1>3, <1>4 DEF IInv

\* What is written, indented or nested.
LEMMA DoneKeeps ==
    ASSUME IInv, WriteText \/ GoodLook \/ Nest
    PROVE  IInv'
  <1>1. BufferOK /\ deepth \in Nat /\ CountersOK /\ meant \in Text /\ Open(meant) \in Int
    BY OpenConcat DEF IInv, BufferOK
  <1>2. todo # <<>> /\ Visit(<<>>)  BY DEF WriteText, GoodLook, Nest, At
  <1>3. CountersOK'
    BY <1>1 DEF WriteText, GoodLook, Nest, Uncounted, Same, CountersOK
  <1>4. Head(todo).what \in {"write", "goodLook", "deeper", "shallower"}
    BY DEF WriteText, GoodLook, Nest, At
  <1>5. Head(todo).what \notin Node \cup {"components"}  BY <1>4 DEF Node
  <1>6. Head(todo) \in Item
    <2>1. \E s \in Seq(Inside) : s # <<>> /\ Head(s) = Head(todo)  BY <1>2, <1>5, Top
    <2>2. QED  BY <2>1, FlatItems
  <1>7. Head(todo).text \in Text /\ (Head(todo).what # "write" => Open(Head(todo).text) = 0)
    BY <1>6, OpenEmpty DEF Item
  <1>8. todo' # <<>>
    <2>1. PICK s \in Seq(Inside) : s # <<>> /\ todo = Append(s, Components)
      BY <1>2, <1>5, Top
    <2>2. Tail(todo) = Append(Tail(s), Components) /\ Tail(s) \in Seq(Inside)  BY <2>1
    <2>3. todo' = <<>> \o Append(Tail(s), Components)  BY <1>2, <2>2 DEF Visit
    <2>4. Append(Tail(s), Components) \in Seq(Inside \cup {Components})
          /\ Append(Tail(s), Components) # <<>>
      BY <2>2
    <2>5. QED  BY <2>3, <2>4
  <1>9. CASE WriteText
    <2>1. Head(todo).what = "write" /\ write(Head(todo).text) /\ deepth' = deepth
      BY <1>9 DEF WriteText, At, Same
    <2>2. BufferOK' /\ Open(meant') = Open(meant) + Open(Head(todo).text)
      BY <1>1, <1>2, <1>7, <1>8, <2>1, TextWritten
    <2>3. Deepens(Head(todo)) = 0  BY <2>1 DEF Deepens
    <2>4. deepth' = deepth + Deepens(Head(todo))  BY <1>1, <2>1, <2>3
    <2>5. QED  BY <1>2, <1>3, <1>5, <2>2, <2>4, ItemDone DEF IInv
  <1>10. CASE GoodLook
    <2> DEFINE tabs == Times(deepth, "tab")
    <2>1. Head(todo).what = "goodLook" /\ write(tabs) /\ deepth' = deepth
      BY <1>10 DEF GoodLook, At, Same
    <2>2. tabs \in Text /\ Open(tabs) = 0
      <3>1. "tab" \in Char /\ Brace("tab") = 0  BY Letters
      <3>2. tabs \in Text /\ Len(tabs) = deepth /\ \A i \in 1 .. deepth : tabs[i] = "tab"
        BY <1>1, <3>1 DEF Times, Text
      <3> HIDE DEF tabs
      <3>3. \A i \in 1 .. Len(tabs) : Brace(tabs[i]) = 0  BY <3>1, <3>2
      <3>4. QED  BY <3>2, <3>3, OpenNothing
    <2> HIDE DEF tabs
    <2>3. BufferOK' /\ Open(meant') = Open(meant) + Open(tabs)
      BY <1>1, <1>2, <1>8, <2>1, <2>2, TextWritten
    <2>4. Open(meant') = Open(meant) + Open(Head(todo).text)  BY <1>7, <2>1, <2>2, <2>3
    <2>5. Deepens(Head(todo)) = 0  BY <2>1 DEF Deepens
    <2>6. deepth' = deepth + Deepens(Head(todo))  BY <1>1, <2>1, <2>5
    <2>7. QED  BY <1>2, <1>3, <1>5, <2>3, <2>4, <2>6, ItemDone DEF IInv
  <1>11. CASE Nest
    <2>1. Unwritten /\ Head(todo).what \in {"deeper", "shallower"}
      BY <1>11 DEF Nest, At
    <2>2. BufferOK' /\ meant' = meant  BY <1>1, <1>2, <1>8, <2>1, NothingWritten
    <2>3. Open(meant') = Open(meant) + Open(Head(todo).text)
      BY <1>1, <1>7, <2>1, <2>2
    <2>4. deepth' = deepth + Deepens(Head(todo))
      BY <1>1, <1>11 DEF Nest, At, Deepens
    <2>5. QED  BY <1>2, <1>3, <1>5, <2>2, <2>3, <2>4, ItemDone DEF IInv
  <1>12. QED  BY <1>9, <1>10, <1>11

\* A function: its parameters, and a body between two braces.
LEMMA FuncKeeps ==
    ASSUME IInv, VisitFunc
    PROVE  IInv'
  <1> DEFINE head == W(<<"t", "w", "(">>)
             begin == W(<<")", "{">>)
             end == W(<<"}">>)
             body == <<begin, Deeper, Stmts, Shallower, end>>
             items(n) == <<head>> \o Times(n, Param) \o body
  <1>1. PICK n \in 0 .. MaxArgs :
            /\ Visit(<<head>> \o Times(n, Param)
                     \o <<begin, Deeper, Stmts, Shallower, end, Components>>)
            /\ parmNum' = Commas(n)
    BY DEF VisitFunc
  <1>2. n \in Nat
    <2>1. MaxArgs \in Nat  BY BoundsAssumption
    <2>2. QED  BY <2>1
  <1>3. CountersOK'
    <2>1. parmNum' \in Int
      <3>1. Commas(n) \in Int  BY <1>2 DEF Commas
      <3>2. QED  BY <1>1, <3>1
    <2>2. argNum' = argNum /\ compound' = compound /\ visits < MaxVisits /\ visits' = visits + 1
      BY DEF VisitFunc, Counted
    <2>3. MaxVisits \in Nat  BY BoundsAssumption
    <2>4. visits' \in 0 .. MaxVisits  BY <2>2, <2>3 DEF IInv, CountersOK
    <2>5. QED  BY <2>1, <2>2, <2>4 DEF IInv, CountersOK
  <1>4. body \in Even
    <2>1. /\ <<"}">> \in Text /\ Open(<<"}">>) = -1
          /\ <<")", "{">> \in Text /\ Open(<<")", "{">>) = 1
      <3>1. /\ "}" \in Char /\ Brace("}") = -1 /\ "{" \in Char /\ Brace("{") = 1
            /\ ")" \in Char /\ Brace(")") = 0
        BY Letters, BraceFacts
      <3>2. /\ <<"}">> \in Text /\ Open(<<"}">>) = Brace("}")
            /\ <<")", "{">> \in Text /\ Open(<<")", "{">>) = Brace(")") + Brace("{")
        BY <3>1, OpenOne, OpenTwo
      <3>3. Open(<<"}">>) = -1  BY <3>1, <3>2
      <3>4. Open(<<")", "{">>) = 1
        <4> DEFINE p == Brace(")")
                   q == Brace("{")
        <4>1. p = 0 /\ q = 1  BY <3>1
        <4> HIDE DEF p, q
        <4>2. p + q = 1  BY <4>1
        <4>3. Open(<<")", "{">>) = p + q  BY <3>2 DEF p, q
        <4>4. QED  BY <4>2, <4>3
      <3>5. QED  BY <3>2, <3>3, <3>4
    <2>2. \A x \in Nat : body \in Seq(Inside) /\ Leads(body, <<x, x>>, <<x, x>>)
      BY <2>1, BodyLeads
    <2>3. 0 \in Nat  OBVIOUS
    <2> HIDE DEF body
    <2>4. QED  BY <2>2, <2>3 DEF Even
  <1>5. <<head>> \o Times(n, Param) \in Even
    <2>1. head \in Flat /\ Param \in Flat  BY FlatItems DEF Plain
    <2>2. Times(n, Param) \in Seq(Flat)  BY <1>2, <2>1 DEF Times
    <2> HIDE DEF head
    <2>3. <<head>> \o Times(n, Param) \in Seq(Flat)  BY <2>1, <2>2
    <2>4. QED  BY <2>3, EvenLists
  <1>6. items(n) \in Even
    <2> HIDE DEF body, head
    <2>1. QED  BY <1>4, <1>5, EvenLists
  <1>7. Visit(Append(items(n), Components))
    <2> DEFINE front == <<head>> \o Times(n, Param)
    <2>1. front \in Seq(Inside) /\ body \in Seq(Inside)
      BY <1>4, <1>5 DEF Even
    <2>2. <<begin, Deeper, Stmts, Shallower, end, Components>> = Append(body, Components)
      <3> HIDE DEF begin, end
      <3>1. QED  OBVIOUS
    <2> HIDE DEF front, body
    <2>3. front \o Append(body, Components) = Append(front \o body, Components)
      BY <2>1
    <2>4. QED  BY <1>1, <2>2, <2>3 DEF front
  <1>8. At("components") /\ Unwritten /\ UNCHANGED deepth
    BY DEF VisitFunc
  <1> HIDE DEF items
  <1>9. QED  BY <1>3, <1>6, <1>7, <1>8, ComponentKeeps

\* An inner expression.
LEMMA InnerKeeps ==
    ASSUME IInv, NEW items \in Even, Inner(items), argNum' \in Int
    PROVE  IInv'
  <1>1. (At("expr") \/ At("arg")) /\ Visit(items) /\ Unwritten /\ UNCHANGED deepth
    BY DEF Inner
  <1>2. CountersOK'
    <2>1. CountersOK /\ MaxVisits \in Nat  BY BoundsAssumption DEF IInv
    <2>2. visits' \in 0 .. MaxVisits  BY <2>1 DEF Inner, Counted, CountersOK
    <2>3. compound' \subseteq {"arg", "index", "init"}  BY <2>1 DEF Inner, InnerArg, CountersOK
    <2>4. QED  BY <2>1, <2>2, <2>3 DEF Inner, CountersOK
  <1>3. "expr" \in Node /\ "arg" \in Node  BY DEF Node
  <1>4. QED  BY <1>1, <1>2, <1>3, NodeKeeps

\* Every step keeps the invariant.
LEMMA NextInvariant == IInv /\ [Next]_vars => IInv'
  <1> SUFFICES ASSUME IInv, [Next]_vars PROVE IInv'
    OBVIOUS
  <1>1. CountersOK /\ deepth \in Nat /\ MaxVisits \in Nat /\ MaxArgs \in Nat
    BY BoundsAssumption DEF IInv
  <1>2. \A what \in {"stmts", "expr", "arg", "param", "init"} : what \in Node  BY DEF Node
  <1>3. \A n \in 0 .. MaxArgs : n \in Nat /\ Commas(n) \in Int  BY <1>1 DEF Commas
  <1>4. Counted => visits' \in 0 .. MaxVisits
    BY <1>1 DEF Counted, CountersOK
  <1>5. CASE WriteText \/ GoodLook \/ Nest
    BY <1>5, DoneKeeps
  <1>6. CASE VisitFunc
    BY <1>6, FuncKeeps
  <1>7. CASE VisitParam
    <2>1. CountersOK'
      <3>1. parmNum' = parmNum - 1 \/ parmNum' = parmNum  BY <1>7 DEF VisitParam
      <3>2. parmNum' \in Int  BY <1>1, <3>1 DEF CountersOK
      <3>3. QED  BY <1>1, <1>7, <3>2 DEF VisitParam, Same, CountersOK
    <2>2. \E items \in Even : Visit(items)
      BY <1>7, DeclarationsAreEven DEF VisitParam
    <2>3. At("param") /\ Unwritten /\ UNCHANGED deepth  BY <1>7 DEF VisitParam, Same
    <2>4. QED  BY <1>2, <2>1, <2>2, <2>3, NodeKeeps
  <1>8. CASE VisitGlobal
    <2>1. CountersOK'
      BY <1>1, <1>4, <1>8 DEF VisitGlobal, Uncounted, CountersOK
    <2>2. \E items \in Even : Visit(Append(items, Components))
      BY <1>8, DeclarationsAreEven DEF VisitGlobal
    <2>3. At("components") /\ Unwritten /\ UNCHANGED deepth  BY <1>8 DEF VisitGlobal
    <2>4. QED  BY <2>1, <2>2, <2>3, ComponentKeeps
  <1>9. CASE FinishProgram
    <2>1. CountersOK' /\ deepth' = deepth
      BY <1>1, <1>9 DEF FinishProgram, Uncounted, Same, CountersOK
    <2>2. todo # <<>> /\ todo' = <<>>
      <3>1. todo # <<>> /\ Head(todo).what = "components"  BY <1>9 DEF FinishProgram, At
      <3>2. PICK s \in Seq(Inside) : todo = Append(s, Components)
        BY <3>1 DEF IInv, WorkOK
      <3>3. s = <<>>
        <4>1. s # <<>> => Head(todo) \in Inside  BY <3>2, Stack
        <4>2. QED  BY <3>1, <4>1 DEF Inside
      <3>4. Tail(todo) = <<>>  BY <3>2, <3>3
      <3>5. QED  BY <1>9, <3>1, <3>4 DEF FinishProgram, Visit
    <2>3. BufferOK'  BY <1>9, <2>2, ProgramFinished DEF IInv
    <2>4. WorkOK'  BY <2>2 DEF WorkOK
    <2>5. QED  BY <1>1, <2>1, <2>3, <2>4 DEF IInv
  <1>10. CASE VisitStmt
    <2>1. CountersOK'
      BY <1>1, <1>4, <1>10 DEF VisitStmt, Uncounted, CountersOK
    <2>2. PICK items \in UNION {Variable, Return, Jump, ExprStmt, For, While, If} :
                   Visit(Append(items, Stmts))
      BY <1>10 DEF VisitStmt
    <2>3. Append(items, Stmts) \in Even
      <3>1. items \in Even  BY <2>2, StatementsAreEven
      <3>2. <<Stmts>> \in Even  BY FlatItems, FlatTuples
      <3>3. items \in Seq(Inside)  BY <3>1 DEF Even
      <3>4. Append(items, Stmts) = items \o <<Stmts>>  BY <3>3
      <3>5. QED  BY <3>1, <3>2, <3>4, EvenLists
    <2>4. At("stmts") /\ Unwritten /\ UNCHANGED deepth  BY <1>10 DEF VisitStmt
    <2>5. QED  BY <1>2, <2>1, <2>2, <2>3, <2>4, NodeKeeps
  <1>11. CASE FinishStmts
    <2>1. CountersOK' /\ UNCHANGED deepth
      BY <1>1, <1>11 DEF FinishStmts, Uncounted, Same, CountersOK
    <2>2. <<>> \in Even
      <3>1. Expr \in Flat  BY FlatItems
      <3>2. QED  BY <3>1, FlatTuples
    <2>3. At("stmts") /\ Visit(<<>>) /\ Unwritten  BY <1>11 DEF FinishStmts
    <2>4. QED  BY <1>2, <2>1, <2>2, <2>3, NodeKeeps
  <1>12. CASE VisitLeaf
    <2>1. CountersOK' /\ UNCHANGED deepth
      BY <1>1, <1>12 DEF VisitLeaf, Uncounted, Same, CountersOK
    <2>2. \E items \in Even : Visit(items)
      BY <1>12, ExpressionsAreEven DEF VisitLeaf
    <2>3. At("expr") /\ Unwritten  BY <1>12 DEF VisitLeaf
    <2>4. QED  BY <1>2, <2>1, <2>2, <2>3, NodeKeeps
  <1>13. CASE VisitLeafArg
    <2>1. CountersOK'
      <3>1. argNum' = argNum - 1 \/ argNum' = argNum  BY <1>13 DEF VisitLeafArg
      <3>2. argNum' \in Int  BY <1>1, <3>1 DEF CountersOK
      <3>3. QED  BY <1>1, <1>13, <3>2 DEF VisitLeafArg, Same, CountersOK
    <2>2. \E items \in Even : Visit(items)
      BY <1>13, ExpressionsAreEven DEF VisitLeafArg
    <2>3. At("arg") /\ Unwritten /\ UNCHANGED deepth  BY <1>13 DEF VisitLeafArg, Same
    <2>4. QED  BY <1>2, <2>1, <2>2, <2>3, NodeKeeps
  <1>14. CASE VisitBinary
    <2>1. Inner(<<Expr, W(<<"o">>), Expr>>) /\ argNum' = argNum  BY <1>14 DEF VisitBinary
    <2>2. QED  BY <1>1, <2>1, ExpressionsAreEven, InnerKeeps DEF CountersOK
  <1>15. CASE VisitUnary
    <2>1. Inner(<<W(<<"u">>), Expr>>) /\ argNum' = argNum  BY <1>15 DEF VisitUnary
    <2>2. QED  BY <1>1, <2>1, ExpressionsAreEven, InnerKeeps DEF CountersOK
  <1>16. CASE VisitIndexedRef
    <2>1. PICK n \in 1 .. 2 :
                   /\ Visit(<<W(<<"w", "[">>)>> \o Times(n, Expr) \o <<W(<<"]">>)>>)
                   /\ compound' = compound \cup InnerArg \cup (IF n > 1 THEN {"index"} ELSE {})
      BY <1>16 DEF VisitIndexedRef
    <2>2. CountersOK'
      <3>1. compound' \subseteq {"arg", "index", "init"}  BY <1>1, <2>1 DEF InnerArg, CountersOK
      <3>2. QED  BY <1>1, <1>4, <1>16, <3>1 DEF VisitIndexedRef, Uncounted, CountersOK
    <2>3. <<W(<<"w", "[">>)>> \o Times(n, Expr) \o <<W(<<"]">>)>> \in Even
      <3>1. n \in Nat  OBVIOUS
      <3>2. QED  BY <3>1, ExpressionsAreEven
    <2>4. (At("expr") \/ At("arg")) /\ Unwritten /\ UNCHANGED deepth
      BY <1>16 DEF VisitIndexedRef
    <2>5. QED  BY <1>2, <2>1, <2>2, <2>3, <2>4, NodeKeeps
  <1>17. CASE VisitCall
    <2>1. PICK n \in 0 .. MaxArgs :
                   /\ Inner(<<W(<<"w", "(">>)>> \o Times(n, Arg) \o <<W(<<")">>)>>)
                   /\ argNum' = Commas(n)
      BY <1>17 DEF VisitCall
    <2>2. <<W(<<"w", "(">>)>> \o Times(n, Arg) \o <<W(<<")">>)>> \in Even
      BY <1>3, ExpressionsAreEven
    <2>3. argNum' \in Int  BY <1>3, <2>1
    <2>4. QED  BY <2>1, <2>2, <2>3, InnerKeeps
  <1>18. CASE VisitInit
    <2>1. PICK list \in Optional(Initializers), expr \in Optional(Expr) :
                   /\ Visit(list \o expr)
                   /\ compound' = compound \cup (IF <<>> \in {list, expr} THEN {} ELSE {"init"})
      BY <1>18 DEF VisitInit
    <2>2. CountersOK'
      <3>1. compound' \subseteq {"arg", "index", "init"}  BY <1>1, <2>1 DEF CountersOK
      <3>2. QED  BY <1>1, <1>4, <1>18, <3>1 DEF VisitInit, Uncounted, CountersOK
    <2>3. list \o expr \in Even  BY ExpressionsAreEven
    <2>4. At("init") /\ Unwritten /\ UNCHANGED deepth  BY <1>18 DEF VisitInit
    <2>5. QED  BY <1>2, <2>1, <2>2, <2>3, <2>4, NodeKeeps
  <1>19. CASE UNCHANGED vars
    BY <1>19 DEF vars, IInv, CountersOK, BufferOK, WorkOK
  <1>20. QED
    BY <1>5, <1>6, <1>7, <1>8, <1>9, <1>10, <1>11, <1>12, <1>13, <1>14, <1>15, <1>16, <1>17,
       <1>18, <1>19 DEF Next

-----------------------------------------------------------------------------
(* The buffer and the levels: the theorems.                                *)

\* The invariant is one of the specification.
LEMMA Invariant == Spec => []IInv
  <1>1. QED  BY InitInvariant, NextInvariant, PTL DEF Spec

\* No character is written behind the buffer, whatever its size and the program are.
THEOREM TypeCorrect == Spec => []TypeOK
  <1>1. IInv => TypeOK
    BY DEF IInv, CountersOK, BufferOK, TypeOK
  <1>2. QED  BY <1>1, Invariant, PTL

\* The stream gets the text of the visitors in order and once, up to a comma behind a
\* parenthesis.
THEOREM NothingIsLost == Spec => []TextIsDelivered
  <1>1. IInv => TextIsDelivered
    <2> SUFFICES ASSUME IInv PROVE TextIsDelivered
      OBVIOUS
    <2>1. Delivers(buf, meant) /\ (todo = <<>> => buf.size = 0)  BY DEF IInv, BufferOK
    <2>2. Delivered = DeliveredBy(buf)  BY DEF Delivered, DeliveredBy
    <2>3. DropCandidate <=> Drops(meant)  BY DEF DropCandidate, Drops
    <2>4. QED  BY <2>1, <2>2, <2>3 DEF TextIsDelivered, Delivers
  <1>2. QED  BY <1>1, Invariant, PTL

\* Where a statement can begin, deepth counts the open braces.
THEOREM IndentationIsRight == Spec => []IndentFollowsBraces
  <1>1. IInv => IndentFollowsBraces
    <2> SUFFICES ASSUME IInv, At("stmts") PROVE deepth = Open(meant)
      BY DEF IndentFollowsBraces
    <2>1. todo # <<>> /\ Head(todo).what = "stmts" /\ Head(todo).what # "components"
      BY DEF At
    <2>2. PICK b : Changes(Head(todo), <<deepth, Open(meant)>>, b)
      BY <2>1, Top
    <2>3. QED  BY <2>1, <2>2 DEF Changes, Node
  <1>2. QED  BY <1>1, Invariant, PTL

-----------------------------------------------------------------------------
(* The separators of the lists.                                            *)

\* What a text ends with: a comma, the end of an item, or neither.
Class == {"open", "comma", "closed"}
Ready == {"open", "comma"}
Either == {"open", "closed"}
Done == {"closed"}
Ending(c) == IF c = "," THEN "comma" ELSE IF c \in End THEN "closed" ELSE "open"
EndOf(text) == IF text = <<>> THEN "open" ELSE Ending(text[Len(text)])

\* The ends that a character may follow.
Admits(c) ==
    {e \in Class : /\ e = "closed" => c \notin Begin
                   /\ e = "comma" => c \notin Close
                   /\ c = "," => e = "closed"}

\* The ends of the text before an item, and behind it when `next` is the item that
\* follows: between two parameters, or two arguments, a comma is written.
Entry(item) ==
    CASE item.what = "write" -> Admits(item.text[1])
      [] item.what \in {"goodLook", "expr", "arg", "param"} -> Ready
      [] OTHER -> {"open"}
Exit(item, next) ==
    CASE item.what = "write" -> {EndOf(item.text)}
      [] item.what = "goodLook" -> Ready
      [] item.what = "expr" -> Done
      [] item.what \in {"arg", "param"} -> IF next.what = item.what THEN {"comma"} ELSE Done
      [] item.what = "init" -> Either
      [] OTHER -> {"open"}

\* A text with nothing wrong inside, and the items that write such texts.
Neat(text) == text # <<>> /\ \A i \in 1 .. Len(text) - 1 : ~BadPair(text[i], text[i + 1])
Tidy == {item \in Item : item.what = "write" => Neat(item.text)}

\* Each item of a list may follow the one before; the list, visited behind a text that
\* ends in A, leaves one that ends in B.
Joins(list) ==
    \A i \in 1 .. Len(list) - 1 : Exit(list[i], list[i + 1]) \subseteq Entry(list[i + 1])
Goes(list, A, B) ==
    /\ list \in Seq(Tidy) /\ Joins(list)
    /\ list = <<>> => A \subseteq B
    /\ list # <<>> => /\ A \subseteq Entry(list[1])
                      /\ \A next \in Item : Exit(list[Len(list)], next) \subseteq B
Moves(item, A, B) ==
    /\ item \in Tidy /\ A \subseteq Entry(item)
    /\ \A next \in Item : Exit(item, next) \subseteq B

\* One list behind another.
LEMMA GoesOn ==
    ASSUME NEW s, NEW t, NEW A, NEW B, NEW C, Goes(s, A, B), Goes(t, B, C)
    PROVE  Goes(s \o t, A, C)
  <1> DEFINE n == Len(s)
             k == Len(t)
             u == s \o t
  <1>1. /\ s \in Seq(Tidy) /\ t \in Seq(Tidy) /\ u \in Seq(Tidy)
        /\ n \in Nat /\ k \in Nat /\ Len(u) = n + k
        /\ \A i \in 1 .. n : u[i] = s[i]
        /\ \A i \in n + 1 .. n + k : u[i] = t[i - n]
    BY DEF Goes
  <1>2. \A i \in 1 .. n - 1 : Exit(s[i], s[i + 1]) \subseteq Entry(s[i + 1])
    BY DEF Goes, Joins
  <1>3. \A i \in 1 .. k - 1 : Exit(t[i], t[i + 1]) \subseteq Entry(t[i + 1])
    BY DEF Goes, Joins
  <1>4. /\ n = 0 => A \subseteq B
        /\ n # 0 => A \subseteq Entry(s[1]) /\ \A next \in Item : Exit(s[n], next) \subseteq B
    <2>1. n = 0 <=> s = <<>>  BY <1>1
    <2>2. QED  BY <2>1 DEF Goes
  <1>5. /\ k = 0 => B \subseteq C
        /\ k # 0 => B \subseteq Entry(t[1]) /\ \A next \in Item : Exit(t[k], next) \subseteq C
    <2>1. k = 0 <=> t = <<>>  BY <1>1
    <2>2. QED  BY <2>1 DEF Goes
  <1>6. Tidy \subseteq Item /\ \A i \in 1 .. k : t[i] \in Item
    BY <1>1 DEF Tidy
  <1>7. u = <<>> <=> n + k = 0  BY <1>1
  <1> HIDE DEF u, n, k
  <1>8. ASSUME NEW i \in 1 .. n + k - 1 PROVE Exit(u[i], u[i + 1]) \subseteq Entry(u[i + 1])
    <2>1. CASE i < n
      <3>1. i \in 1 .. n - 1 /\ i \in 1 .. n /\ i + 1 \in 1 .. n  BY <1>1, <2>1
      <3>2. QED  BY <1>1, <1>2, <3>1
    <2>2. CASE i = n
      <3>1. i \in 1 .. n /\ i + 1 \in n + 1 .. n + k /\ (i + 1) - n = 1 /\ n # 0 /\ k # 0
            /\ 1 \in 1 .. k
        BY <1>1, <2>2
      <3>2. u[i] = s[n] /\ u[i + 1] = t[1] /\ t[1] \in Item  BY <1>1, <1>6, <2>2, <3>1
      <3>3. QED  BY <1>4, <1>5, <3>1, <3>2
    <2>3. CASE i > n
      <3>1. PICK j \in Nat : j = i - n  BY <1>1, <2>3
      <3>2. /\ j \in 1 .. k - 1 /\ i \in n + 1 .. n + k /\ i + 1 \in n + 1 .. n + k
            /\ (i + 1) - n = j + 1
        BY <1>1, <2>3, <3>1
      <3>3. u[i] = t[j] /\ u[i + 1] = t[j + 1]  BY <1>1, <3>1, <3>2
      <3>4. QED  BY <1>3, <3>2, <3>3
    <2>4. QED  BY <1>1, <2>1, <2>2, <2>3
  <1>9. Joins(u)
    <2>1. Len(u) - 1 = n + k - 1  BY <1>1
    <2>2. QED  BY <1>8, <2>1 DEF Joins
  <1>10. u = <<>> => A \subseteq C
    <2>1. u = <<>> => n = 0 /\ k = 0  BY <1>1, <1>7
    <2>2. QED  BY <1>4, <1>5, <2>1
  <1>11. ASSUME u # <<>>
         PROVE  A \subseteq Entry(u[1]) /\ \A next \in Item : Exit(u[Len(u)], next) \subseteq C
    <2>1. CASE n = 0
      <3>1. k # 0 /\ 1 \in n + 1 .. n + k /\ n + k \in n + 1 .. n + k /\ 1 - n = 1
            /\ (n + k) - n = k
        BY <1>1, <1>7, <1>11, <2>1
      <3>2. u[1] = t[1] /\ u[n + k] = t[k]  BY <1>1, <3>1
      <3>3. QED  BY <1>1, <1>4, <1>5, <2>1, <3>1, <3>2
    <2>2. CASE n # 0 /\ k = 0
      <3>1. 1 \in 1 .. n /\ n + k = n /\ n \in 1 .. n  BY <1>1, <2>2
      <3>2. u[1] = s[1] /\ u[n + k] = s[n]  BY <1>1, <3>1
      <3>3. QED  BY <1>1, <1>4, <1>5, <2>2, <3>2
    <2>3. CASE n # 0 /\ k # 0
      <3>1. 1 \in 1 .. n /\ n + k \in n + 1 .. n + k /\ (n + k) - n = k  BY <1>1, <2>3
      <3>2. u[1] = s[1] /\ u[n + k] = t[k]  BY <1>1, <3>1
      <3>3. QED  BY <1>1, <1>4, <1>5, <2>3, <3>2
    <2>4. QED  BY <2>1, <2>2, <2>3
  <1>12. QED  BY <1>1, <1>9, <1>10, <1>11 DEF Goes, u

\* The first item, and the others: the list goes on from where the item leaves the text.
LEMMA GoesFirst ==
    ASSUME NEW s, s # <<>>, NEW A, NEW B, NEW C, Goes(s, A, C), C = Class, B \subseteq Class,
           Tail(s) # <<>> => B \subseteq Exit(s[1], s[2])
    PROVE  /\ Head(s) = s[1] /\ s[1] \in Tidy /\ A \subseteq Entry(s[1])
           /\ Tail(s) \in Seq(Tidy) /\ Goes(Tail(s), B, C)
  <1> DEFINE n == Len(s) - 1
             t == Tail(s)
  <1>1. /\ s \in Seq(Tidy) /\ n \in Nat /\ Len(s) = n + 1 /\ t \in Seq(Tidy) /\ Len(t) = n
        /\ Head(s) = s[1] /\ s[1] \in Tidy
        /\ \A i \in 1 .. n : t[i] = s[i + 1]
    BY DEF Goes
  <1> HIDE DEF n, t
  <1>2. t = <<>> <=> n = 0  BY <1>1
  <1>3. ASSUME NEW i \in 1 .. n PROVE Exit(s[i], s[i + 1]) \subseteq Entry(s[i + 1])
    <2>1. i \in 1 .. Len(s) - 1  BY <1>1
    <2>2. QED  BY <2>1 DEF Goes, Joins
  <1>4. ASSUME NEW i \in 1 .. n - 1 PROVE Exit(t[i], t[i + 1]) \subseteq Entry(t[i + 1])
    <2>1. i + 1 \in 1 .. n /\ i \in 1 .. n  BY <1>1
    <2>2. t[i] = s[i + 1] /\ t[i + 1] = s[(i + 1) + 1]  BY <1>1, <2>1
    <2>3. QED  BY <1>3, <2>1, <2>2
  <1>5. Joins(t)  BY <1>1, <1>4 DEF Joins
  <1>6. ASSUME t # <<>>
        PROVE  B \subseteq Entry(t[1]) /\ \A next \in Item : Exit(t[Len(t)], next) \subseteq C
    <2>1. n # 0 /\ 1 \in 1 .. n /\ n \in 1 .. n /\ 1 + 1 = 2  BY <1>1, <1>2, <1>6
    <2>2. t[1] = s[2] /\ t[n] = s[n + 1]  BY <1>1, <2>1
    <2>3. Exit(s[1], s[2]) \subseteq Entry(s[2])  BY <1>3, <2>1
    <2>4. B \subseteq Exit(s[1], s[2])  BY <1>6 DEF t
    <2>5. \A next \in Item : Exit(s[n + 1], next) \subseteq C  BY <1>1 DEF Goes
    <2>6. QED  BY <1>1, <2>2, <2>3, <2>4, <2>5
  <1>7. A \subseteq Entry(s[1])  BY DEF Goes
  <1>8. Goes(t, B, C)  BY <1>1, <1>5, <1>6 DEF Goes
  <1>9. QED  BY <1>1, <1>7, <1>8 DEF t

\* A list of one item.
LEMMA GoesOne ==
    ASSUME NEW a, NEW A, NEW B, Moves(a, A, B)
    PROVE  Goes(<<a>>, A, B)
  <1>1. <<a>> \in Seq(Tidy) /\ Len(<<a>>) = 1 /\ <<a>>[1] = a /\ <<a>> # <<>>
    BY DEF Moves
  <1>2. Joins(<<a>>)  BY <1>1 DEF Joins
  <1>3. QED  BY <1>1, <1>2 DEF Moves, Goes

\* Two lists with the same items are the same.
LEMMA SameLists ==
    ASSUME NEW S, NEW u \in Seq(S), NEW v \in Seq(S), NEW n \in Nat, Len(u) = n, Len(v) = n,
           \A i \in 1 .. n : u[i] = v[i]
    PROVE  u = v
  OBVIOUS

\* Short lists, one item after the other.
LEMMA GoesTwo ==
    ASSUME NEW a, NEW b, NEW A, NEW B, NEW C, Moves(a, A, B), Moves(b, B, C)
    PROVE  Goes(<<a, b>>, A, C)
  <1>1. Goes(<<a>>, A, B) /\ Goes(<<b>>, B, C)  BY GoesOne
  <1>2. <<a>> \o <<b>> = <<a, b>>
    <2> DEFINE u == <<a>> \o <<b>>
               v == <<a, b>>
    <2>1. u \in Seq({a, b}) /\ Len(u) = 2 /\ u[1] = a /\ u[2] = b
      OBVIOUS
    <2>2. v \in Seq({a, b}) /\ Len(v) = 2 /\ v[1] = a /\ v[2] = b
      OBVIOUS
    <2> HIDE DEF u, v
    <2>3. \A i \in 1 .. 2 : i = 1 \/ i = 2  OBVIOUS
    <2>4. u = v  BY <2>1, <2>2, <2>3, SameLists
    <2>5. QED  BY <2>4 DEF u, v
  <1>3. QED  BY <1>1, <1>2, GoesOn

\* ... three items,
LEMMA GoesThree ==
    ASSUME NEW a, NEW b, NEW c, NEW A, NEW B, NEW C, NEW D,
           Moves(a, A, B), Moves(b, B, C), Moves(c, C, D)
    PROVE  Goes(<<a, b, c>>, A, D)
  <1>1. Goes(<<a>>, A, B) /\ Goes(<<b, c>>, B, D)  BY GoesOne, GoesTwo
  <1>2. <<a>> \o <<b, c>> = <<a, b, c>>
    <2> DEFINE u == <<a>> \o <<b, c>>
               v == <<a, b, c>>
    <2>1. u \in Seq({a, b, c}) /\ Len(u) = 3 /\ u[1] = a /\ u[2] = b /\ u[3] = c
      OBVIOUS
    <2>2. v \in Seq({a, b, c}) /\ Len(v) = 3 /\ v[1] = a /\ v[2] = b /\ v[3] = c
      OBVIOUS
    <2> HIDE DEF u, v
    <2>3. \A i \in 1 .. 3 : i = 1 \/ i = 2 \/ i = 3  OBVIOUS
    <2>4. u = v  BY <2>1, <2>2, <2>3, SameLists
    <2>5. QED  BY <2>4 DEF u, v
  <1>3. QED  BY <1>1, <1>2, GoesOn

\* ... four items,
LEMMA GoesFour ==
    ASSUME NEW a, NEW b, NEW c, NEW d, NEW A, NEW B, NEW C, NEW D, NEW E,
           Moves(a, A, B), Moves(b, B, C), Moves(c, C, D), Moves(d, D, E)
    PROVE  Goes(<<a, b, c, d>>, A, E)
  <1>1. Goes(<<a>>, A, B) /\ Goes(<<b, c, d>>, B, E)  BY GoesOne, GoesThree
  <1>2. <<a>> \o <<b, c, d>> = <<a, b, c, d>>
    <2> DEFINE u == <<a>> \o <<b, c, d>>
               v == <<a, b, c, d>>
    <2>1. u \in Seq({a, b, c, d}) /\ Len(u) = 4 /\ u[1] = a /\ u[2] = b /\ u[3] = c /\ u[4] = d
      OBVIOUS
    <2>2. v \in Seq({a, b, c, d}) /\ Len(v) = 4 /\ v[1] = a /\ v[2] = b /\ v[3] = c /\ v[4] = d
      OBVIOUS
    <2> HIDE DEF u, v
    <2>3. \A i \in 1 .. 4 : i = 1 \/ i = 2 \/ i = 3 \/ i = 4  OBVIOUS
    <2>4. u = v  BY <2>1, <2>2, <2>3, SameLists
    <2>5. QED  BY <2>4 DEF u, v
  <1>3. QED  BY <1>1, <1>2, GoesOn

\* ... five items,
LEMMA GoesFive ==
    ASSUME NEW a, NEW b, NEW c, NEW d, NEW e, NEW A, NEW B, NEW C, NEW D, NEW E, NEW F,
           Moves(a, A, B), Moves(b, B, C), Moves(c, C, D), Moves(d, D, E), Moves(e, E, F)
    PROVE  Goes(<<a, b, c, d, e>>, A, F)
  <1>1. Goes(<<a>>, A, B) /\ Goes(<<b, c, d, e>>, B, F)  BY GoesOne, GoesFour
  <1>2. <<a>> \o <<b, c, d, e>> = <<a, b, c, d, e>>
    <2> DEFINE u == <<a>> \o <<b, c, d, e>>
               v == <<a, b, c, d, e>>
    <2>1. u \in Seq({a, b, c, d, e}) /\ Len(u) = 5 /\ u[1] = a /\ u[2] = b /\ u[3] = c /\ u[4] = d /\ u[5] = e
      OBVIOUS
    <2>2. v \in Seq({a, b, c, d, e}) /\ Len(v) = 5 /\ v[1] = a /\ v[2] = b /\ v[3] = c /\ v[4] = d /\ v[5] = e
      OBVIOUS
    <2> HIDE DEF u, v
    <2>3. \A i \in 1 .. 5 : i = 1 \/ i = 2 \/ i = 3 \/ i = 4 \/ i = 5  OBVIOUS
    <2>4. u = v  BY <2>1, <2>2, <2>3, SameLists
    <2>5. QED  BY <2>4 DEF u, v
  <1>3. QED  BY <1>1, <1>2, GoesOn

\* ... and six.
LEMMA GoesSix ==
    ASSUME NEW a, NEW b, NEW c, NEW d, NEW e, NEW f, NEW A, NEW B, NEW C, NEW D, NEW E, NEW F, NEW G,
           Moves(a, A, B), Moves(b, B, C), Moves(c, C, D), Moves(d, D, E), Moves(e, E, F),
           Moves(f, F, G)
    PROVE  Goes(<<a, b, c, d, e, f>>, A, G)
  <1>1. Goes(<<a>>, A, B) /\ Goes(<<b, c, d, e, f>>, B, G)  BY GoesOne, GoesFive
  <1>2. <<a>> \o <<b, c, d, e, f>> = <<a, b, c, d, e, f>>
    <2> DEFINE u == <<a>> \o <<b, c, d, e, f>>
               v == <<a, b, c, d, e, f>>
    <2>1. /\ u \in Seq({a, b, c, d, e, f}) /\ Len(u) = 6 /\ u[1] = a /\ u[2] = b /\ u[3] = c /\ u[4] = d /\ u[5] = e
          /\ u[6] = f
      OBVIOUS
    <2>2. /\ v \in Seq({a, b, c, d, e, f}) /\ Len(v) = 6 /\ v[1] = a /\ v[2] = b /\ v[3] = c /\ v[4] = d /\ v[5] = e
          /\ v[6] = f
      OBVIOUS
    <2> HIDE DEF u, v
    <2>3. \A i \in 1 .. 6 : i = 1 \/ i = 2 \/ i = 3 \/ i = 4 \/ i = 5 \/ i = 6  OBVIOUS
    <2>4. u = v  BY <2>1, <2>2, <2>3, SameLists
    <2>5. QED  BY <2>4 DEF u, v
  <1>3. QED  BY <1>1, <1>2, GoesOn

\* Parameters or arguments, however many, and what closes their list.
LEMMA GoesListed ==
    ASSUME NEW what \in {"arg", "param"}, NEW head, NEW m \in Nat, NEW rest,
           NEW A, NEW B, Moves(head, A, {"open"}), Goes(rest, Either, B),
           rest # <<>>, rest[1].what = "write"
    PROVE  Goes(<<head>> \o Times(m, Do(what)) \o rest, A, B)
  <1> DEFINE item == Do(what)
             front == <<head>> \o Times(m, item)
             k == Len(rest)
             list == front \o rest
  <1>1. /\ item \in Tidy /\ item \in Item /\ item.what = what
    BY DoFacts, FlatItems DEF Tidy
  <1> HIDE DEF item
  <1>2. head \in Tidy /\ rest \in Seq(Tidy) /\ Tidy \subseteq Item
    BY DEF Moves, Goes, Tidy
  <1>3. /\ front \in Seq(Tidy) /\ Len(front) = m + 1 /\ front[1] = head
        /\ \A i \in 2 .. m + 1 : front[i] = item
    <2>1. /\ Times(m, item) \in Seq(Tidy) /\ Len(Times(m, item)) = m
          /\ \A i \in 1 .. m : Times(m, item)[i] = item
      BY <1>1 DEF Times
    <2>2. QED  BY <1>2, <2>1
  <1> HIDE DEF front
  <1>4. /\ k \in Nat /\ k # 0 /\ list \in Seq(Tidy) /\ Len(list) = m + 1 + k
        /\ \A i \in 1 .. m + 1 : list[i] = front[i]
        /\ \A i \in m + 2 .. m + 1 + k : list[i] = rest[i - (m + 1)]
        /\ \A i \in 1 .. k : rest[i] \in Tidy
    BY <1>2, <1>3
  <1>5. /\ A \subseteq Entry(head) /\ \A next \in Item : Exit(head, next) \subseteq {"open"}
        /\ Either \subseteq Entry(rest[1]) /\ \A next \in Item : Exit(rest[k], next) \subseteq B
        /\ \A i \in 1 .. k - 1 : Exit(rest[i], rest[i + 1]) \subseteq Entry(rest[i + 1])
    BY DEF Moves, Goes, Joins
  <1> HIDE DEF k, list
  <1>6. /\ Entry(item) = Ready /\ Exit(item, item) = {"comma"} /\ Exit(item, rest[1]) = Done
    BY <1>1 DEF Entry, Exit
  <1>7. /\ {"open"} \subseteq Ready /\ {"comma"} \subseteq Ready
        /\ {"open"} \subseteq Either /\ Done \subseteq Either
    BY DEF Ready, Done, Either
  <1>8. ASSUME NEW i \in 1 .. m + k
        PROVE  Exit(list[i], list[i + 1]) \subseteq Entry(list[i + 1])
    <2>1. CASE i = 1 /\ m = 0
      <3>1. list[i] = head /\ list[i + 1] = rest[1] /\ rest[1] \in Item
        <4>1. 1 \in 1 .. m + 1 /\ i + 1 \in m + 2 .. m + 1 + k /\ (i + 1) - (m + 1) = 1
              /\ 1 \in 1 .. k
          BY <1>4, <2>1
        <4>2. QED  BY <1>2, <1>3, <1>4, <2>1, <4>1
      <3>2. QED  BY <1>5, <1>7, <3>1
    <2>2. CASE i = 1 /\ m # 0
      <3>1. i + 1 \in 2 .. m + 1 /\ 1 \in 1 .. m + 1 /\ i + 1 \in 1 .. m + 1  BY <2>2
      <3>2. list[i] = head /\ list[i + 1] = item  BY <1>3, <1>4, <2>2, <3>1
      <3>3. QED  BY <1>1, <1>5, <1>6, <1>7, <3>2
    <2>3. CASE i # 1 /\ i = m + 1
      <3>1. i \in 2 .. m + 1 /\ i \in 1 .. m + 1 /\ i + 1 \in m + 2 .. m + 1 + k
            /\ (i + 1) - (m + 1) = 1
        BY <1>4, <2>3
      <3>2. list[i] = item /\ list[i + 1] = rest[1]  BY <1>3, <1>4, <3>1
      <3>3. QED  BY <1>5, <1>6, <1>7, <3>2
    <2>4. CASE i # 1 /\ i <= m
      <3>1. /\ i \in 2 .. m + 1 /\ i + 1 \in 2 .. m + 1 /\ i \in 1 .. m + 1
            /\ i + 1 \in 1 .. m + 1
        BY <2>4
      <3>2. list[i] = item /\ list[i + 1] = item  BY <1>3, <1>4, <3>1
      <3>3. QED  BY <1>6, <1>7, <3>2
    <2>5. CASE i > m + 1
      <3>1. PICK j \in Nat : i = m + 1 + j
        <4>1. i - (m + 1) \in Nat /\ i = m + 1 + (i - (m + 1))  BY <2>5
        <4>2. QED  BY <4>1
      <3>2. /\ j \in 1 .. k - 1 /\ i \in m + 2 .. m + 1 + k /\ i + 1 \in m + 2 .. m + 1 + k
            /\ i - (m + 1) = j /\ (i + 1) - (m + 1) = j + 1
        BY <1>4, <2>5, <3>1
      <3>3. list[i] = rest[j] /\ list[i + 1] = rest[j + 1]  BY <1>4, <3>2
      <3>4. QED  BY <1>5, <3>2, <3>3
    <2>6. QED  BY <1>4, <2>1, <2>2, <2>3, <2>4, <2>5
  <1>9. Joins(list)
    <2>1. Len(list) - 1 = m + k  BY <1>4
    <2>2. QED  BY <1>8, <2>1 DEF Joins
  <1>10. list # <<>> /\ list[1] = head /\ list[Len(list)] = rest[k]
    <2>1. /\ 1 \in 1 .. m + 1 /\ m + 1 + k \in m + 2 .. m + 1 + k
          /\ (m + 1 + k) - (m + 1) = k
      BY <1>4
    <2>2. list[1] = head /\ list[m + 1 + k] = rest[k]  BY <1>3, <1>4, <2>1
    <2>3. QED  BY <1>4, <2>2
  <1>11. Goes(list, A, B)  BY <1>4, <1>5, <1>9, <1>10 DEF Goes
  <1>12. QED  BY <1>11 DEF list, front, item

\* Less before it, more behind it.
LEMMA GoesWeaker ==
    ASSUME NEW s, NEW A, NEW B, NEW C, NEW D, Goes(s, A, B), C \subseteq A, B \subseteq D
    PROVE  Goes(s, C, D)
  BY DEF Goes

-----------------------------------------------------------------------------
(* How the visitors' lists go.                                             *)

\* Writing a text.
LEMMA MovesText ==
    ASSUME NEW text \in Text, Neat(text), NEW A, NEW B,
           A \subseteq Admits(text[1]), EndOf(text) \in B
    PROVE  Moves(W(text), A, B)
  <1>1. W(text).what = "write" /\ W(text).text = text /\ W(text) \in Item
    BY WriteFacts, FlatItems
  <1>2. W(text) \in Tidy  BY <1>1 DEF Tidy
  <1>3. Entry(W(text)) = Admits(text[1]) /\ \A next : Exit(W(text), next) = {EndOf(text)}
    BY <1>1 DEF Entry, Exit
  <1>4. QED  BY <1>2, <1>3 DEF Moves

\* A text of one character,
LEMMA NeatOne ==
    ASSUME NEW a \in Char
    PROVE  <<a>> \in Text /\ Neat(<<a>>) /\ <<a>>[1] = a /\ EndOf(<<a>>) = Ending(a)
  <1>1. /\ <<a>> \in Seq(Char) /\ Len(<<a>>) = 1 /\ <<a>>[1] = a /\ <<a>> # <<>>
    OBVIOUS
  <1>2. QED  BY <1>1 DEF Text, Neat, EndOf

\* ... of two,
LEMMA NeatTwo ==
    ASSUME NEW a \in Char, NEW b \in Char, ~BadPair(a, b)
    PROVE  <<a, b>> \in Text /\ Neat(<<a, b>>) /\ <<a, b>>[1] = a /\ EndOf(<<a, b>>) = Ending(b)
  <1> DEFINE s == <<a, b>>
  <1>1. s \in Seq(Char) /\ Len(s) = 2 /\ s[1] = a /\ s[2] = b /\ s # <<>>  OBVIOUS
  <1> HIDE DEF s
  <1>2. \A i \in 1 .. Len(s) - 1 : i = 1 /\ i + 1 = 2  BY <1>1
  <1>3. QED  BY <1>1, <1>2 DEF Text, Neat, EndOf, s

\* ... of three,
LEMMA NeatThree ==
    ASSUME NEW a \in Char, NEW b \in Char, NEW c \in Char, ~BadPair(a, b), ~BadPair(b, c)
    PROVE  /\ <<a, b, c>> \in Text /\ Neat(<<a, b, c>>) /\ <<a, b, c>>[1] = a
           /\ EndOf(<<a, b, c>>) = Ending(c)
  <1> DEFINE s == <<a, b, c>>
  <1>1. /\ s \in Seq(Char) /\ Len(s) = 3 /\ s[1] = a /\ s[2] = b /\ s[3] = c /\ s # <<>>
    OBVIOUS
  <1> HIDE DEF s
  <1>2. \A i \in 1 .. Len(s) - 1 : (i = 1 /\ i + 1 = 2) \/ (i = 2 /\ i + 1 = 3)  BY <1>1
  <1>3. QED  BY <1>1, <1>2 DEF Text, Neat, EndOf, s

\* ... and of four.
LEMMA NeatFour ==
    ASSUME NEW a \in Char, NEW b \in Char, NEW c \in Char, NEW d \in Char,
           ~BadPair(a, b), ~BadPair(b, c), ~BadPair(c, d)
    PROVE  /\ <<a, b, c, d>> \in Text /\ Neat(<<a, b, c, d>>) /\ <<a, b, c, d>>[1] = a
           /\ EndOf(<<a, b, c, d>>) = Ending(d)
  <1> DEFINE s == <<a, b, c, d>>
  <1>1. /\ s \in Seq(Char) /\ Len(s) = 4 /\ s[1] = a /\ s[2] = b /\ s[3] = c /\ s[4] = d
        /\ s # <<>>
    OBVIOUS
  <1> HIDE DEF s
  <1>2. \A i \in 1 .. Len(s) - 1 :
            (i = 1 /\ i + 1 = 2) \/ (i = 2 /\ i + 1 = 3) \/ (i = 3 /\ i + 1 = 4)
    BY <1>1
  <1>3. QED  BY <1>1, <1>2 DEF Text, Neat, EndOf, s

\* Texts of one character.
LEMMA MovesOne ==
    /\ Moves(W(<<"t">>), Ready, {"open"}) /\ Moves(W(<<"u">>), Ready, {"open"})
    /\ Moves(W(<<"w">>), Ready, Done)
    /\ Moves(W(<<")">>), Either, Done) /\ Moves(W(<<")">>), Done, Done)
    /\ Moves(W(<<"]">>), Done, Done)
    /\ Moves(W(<<"o">>), Done, {"open"})
    /\ Moves(W(<<",">>), Done, {"comma"})
    /\ Moves(W(<<";">>), Either, {"open"}) /\ Moves(W(<<";">>), Done, {"open"})
    /\ Moves(W(<<"{">>), Either, {"open"})
    /\ Moves(W(<<"}">>), Ready, {"open"}) /\ Moves(W(<<"}">>), {"open"}, {"open"})
  <1>1. ASSUME NEW a \in {"t", "w", "u", ")", "]", "o", ",", ";", "{", "}"}, NEW A, NEW B,
               A \subseteq Admits(a), Ending(a) \in B
        PROVE  Moves(W(<<a>>), A, B)
    <2>1. a \in Char  BY DEF Char
    <2>2. <<a>> \in Text /\ Neat(<<a>>) /\ <<a>>[1] = a /\ EndOf(<<a>>) = Ending(a)
      BY <2>1, NeatOne
    <2>3. A \subseteq Admits(<<a>>[1]) /\ EndOf(<<a>>) \in B  BY <1>1, <2>2
    <2>4. QED  BY <2>2, <2>3, MovesText
  <1>2. \A a \in {"t", "u", "o", ";", "{", "}"} : Ending(a) \in {"open"}  BY DEF Ending, End
  <1>3. \A a \in {"w", ")", "]"} : Ending(a) \in Done  BY DEF Ending, End, Done
  <1>4. Ending(",") \in {"comma"}  BY DEF Ending
  <1>5. \A a \in {"t", "w", "u", "}"} : Ready \subseteq Admits(a)
    BY DEF Admits, Close, Ready, Class
  <1>6. \A a \in {")", "]", "o", ",", ";", "{"} : Done \subseteq Admits(a)
    BY DEF Admits, Begin, Done, Class
  <1>7. \A a \in {")", ";", "{"} : Either \subseteq Admits(a)
    BY DEF Admits, Begin, Either, Class
  <1>8. {"open"} \subseteq Admits("}")  BY DEF Admits, Class
  <1>9. QED  BY <1>1, <1>2, <1>3, <1>4, <1>5, <1>6, <1>7, <1>8

\* Longer texts.
LEMMA MovesMore ==
    /\ Moves(W(<<"t", "w">>), Ready, Done)
    /\ Moves(W(<<"t", ";">>), Ready, {"open"})
    /\ Moves(W(<<"t", "(">>), Ready, {"open"})
    /\ Moves(W(<<"w", "[">>), Ready, {"open"})
    /\ Moves(W(<<"w", "(">>), Ready, {"open"})
    /\ Moves(W(<<"q", "Q">>), Ready, Done)
    /\ Moves(W(<<")", "{">>), Either, {"open"})
    /\ Moves(W(<<"t", "w", "(">>), {"open"}, {"open"})
    /\ Moves(W(<<"t", "w", ",">>), Ready, {"comma"})
    /\ Moves(W(<<"[", "w", "]">>), Done, Done)
    /\ Moves(W(<<"q", ")", ",", "Q">>), Ready, Done)
  <1>1. {"t", "w", ";", "(", ")", "[", "]", "{", "q", "Q", ","} \subseteq Char  BY DEF Char
  <1>2. /\ \A a \in {"t", "w", "q"} : Ready \subseteq Admits(a) /\ {"open"} \subseteq Admits(a)
        /\ Either \subseteq Admits(")") /\ Done \subseteq Admits("[")
    BY DEF Admits, Begin, Close, Ready, Either, Done, Class
  <1>3. /\ \A a \in {";", "(", "[", "{"} : Ending(a) \in {"open"}
        /\ \A a \in {"w", "]", "Q"} : Ending(a) \in Done
        /\ Ending(",") \in {"comma"}
    BY DEF Ending, End, Done
  <1>4. ASSUME NEW a \in Char, NEW b \in Char, ~BadPair(a, b), NEW A, NEW B,
               A \subseteq Admits(a), Ending(b) \in B
        PROVE  Moves(W(<<a, b>>), A, B)
    <2> DEFINE s == <<a, b>>
    <2>1. s \in Text /\ Neat(s) /\ s[1] = a /\ EndOf(s) = Ending(b)  BY <1>4, NeatTwo
    <2> HIDE DEF s
    <2>2. A \subseteq Admits(s[1]) /\ EndOf(s) \in B  BY <1>4, <2>1
    <2>3. Moves(W(s), A, B)  BY <2>1, <2>2, MovesText
    <2>4. QED  BY <2>3 DEF s
  <1>5. ASSUME NEW a \in Char, NEW b \in Char, NEW c \in Char, ~BadPair(a, b), ~BadPair(b, c),
               NEW A, NEW B, A \subseteq Admits(a), Ending(c) \in B
        PROVE  Moves(W(<<a, b, c>>), A, B)
    <2> DEFINE s == <<a, b, c>>
    <2>1. s \in Text /\ Neat(s) /\ s[1] = a /\ EndOf(s) = Ending(c)  BY <1>5, NeatThree
    <2> HIDE DEF s
    <2>2. A \subseteq Admits(s[1]) /\ EndOf(s) \in B  BY <1>5, <2>1
    <2>3. Moves(W(s), A, B)  BY <2>1, <2>2, MovesText
    <2>4. QED  BY <2>3 DEF s
  <1>6. /\ ~BadPair("t", "w") /\ ~BadPair("t", ";") /\ ~BadPair("t", "(") /\ ~BadPair("w", "[")
        /\ ~BadPair("w", "(") /\ ~BadPair("q", "Q") /\ ~BadPair(")", "{") /\ ~BadPair("w", ",")
        /\ ~BadPair("[", "w") /\ ~BadPair("w", "]") /\ ~BadPair("q", ")") /\ ~BadPair(")", ",")
        /\ ~BadPair(",", "Q")
    BY DEF BadPair, Begin, End, Close
  <1>7. /\ Moves(W(<<"t", "w">>), Ready, Done)
        /\ Moves(W(<<"t", ";">>), Ready, {"open"})
        /\ Moves(W(<<"t", "(">>), Ready, {"open"})
        /\ Moves(W(<<"w", "[">>), Ready, {"open"})
        /\ Moves(W(<<"w", "(">>), Ready, {"open"})
        /\ Moves(W(<<"q", "Q">>), Ready, Done)
        /\ Moves(W(<<")", "{">>), Either, {"open"})
    BY <1>1, <1>2, <1>3, <1>4, <1>6
  <1>8. Moves(W(<<"t", "w", "(">>), {"open"}, {"open"})
    BY <1>1, <1>2, <1>3, <1>5, <1>6
  <1>9. Moves(W(<<"t", "w", ",">>), Ready, {"comma"})
    BY <1>1, <1>2, <1>3, <1>5, <1>6
  <1>10. Moves(W(<<"[", "w", "]">>), Done, Done)
    BY <1>1, <1>2, <1>3, <1>5, <1>6
  <1>11. ASSUME NEW a \in Char, NEW b \in Char, NEW c \in Char, NEW d \in Char,
                ~BadPair(a, b), ~BadPair(b, c), ~BadPair(c, d),
                Ready \subseteq Admits(a), Ending(d) \in Done
         PROVE  Moves(W(<<a, b, c, d>>), Ready, Done)
    <2> DEFINE s == <<a, b, c, d>>
    <2>1. s \in Text /\ Neat(s) /\ s[1] = a /\ EndOf(s) = Ending(d)  BY <1>11, NeatFour
    <2> HIDE DEF s
    <2>2. Ready \subseteq Admits(s[1]) /\ EndOf(s) \in Done  BY <1>11, <2>1
    <2>3. Moves(W(s), Ready, Done)  BY <2>1, <2>2, MovesText
    <2>4. QED  BY <2>3 DEF s
  <1>12. Moves(W(<<"q", ")", ",", "Q">>), Ready, Done)
    BY <1>1, <1>2, <1>3, <1>6, <1>11
  <1>13. QED  BY <1>7, <1>8, <1>9, <1>10, <1>12

\* The other items.
LEMMA MovesOthers ==
    /\ Moves(goodLook, Ready, Ready) /\ Moves(goodLook, {"open"}, Ready)
    /\ Moves(Expr, Ready, Done) /\ Moves(Expr, {"open"}, Done)
    /\ Moves(Deeper, {"open"}, {"open"}) /\ Moves(Shallower, {"open"}, {"open"})
    /\ Moves(Stmts, {"open"}, {"open"}) /\ Moves(Components, {"open"}, {"open"})
    /\ Moves(Initializers, {"open"}, Either)
  <1>1. ASSUME NEW what \in What, what # "write"
        PROVE  Do(what) \in Tidy /\ Do(what).what = what
    <2>1. <<>> \in Text  BY OpenEmpty
    <2>2. QED  BY <1>1, <2>1 DEF Do, Tidy, Item
  <1>2. /\ goodLook \in Tidy /\ goodLook.what = "goodLook" /\ Expr \in Tidy /\ Expr.what = "expr"
        /\ Deeper \in Tidy /\ Deeper.what = "deeper"
        /\ Shallower \in Tidy /\ Shallower.what = "shallower"
        /\ Stmts \in Tidy /\ Stmts.what = "stmts"
        /\ Components \in Tidy /\ Components.what = "components"
        /\ Initializers \in Tidy /\ Initializers.what = "init"
    BY <1>1 DEF What, goodLook, Expr, Deeper, Shallower, Stmts, Components, Initializers
  <1>3. \A next : Entry(goodLook) = Ready /\ Exit(goodLook, next) = Ready
    BY <1>2 DEF Entry, Exit
  <1>4. \A next : Entry(Expr) = Ready /\ Exit(Expr, next) = Done
    BY <1>2 DEF Entry, Exit
  <1>5. \A item \in {Deeper, Shallower, Stmts, Components} :
            \A next : Entry(item) = {"open"} /\ Exit(item, next) = {"open"}
    BY <1>2 DEF Entry, Exit
  <1>6. \A next : Entry(Initializers) = {"open"} /\ Exit(Initializers, next) = Either
    BY <1>2 DEF Entry, Exit
  <1>7. {"open"} \subseteq Ready  BY DEF Ready
  <1>8. QED  BY <1>2, <1>3, <1>4, <1>5, <1>6, <1>7 DEF Moves

\* The empty list goes nowhere.
LEMMA GoesNowhere ==
    ASSUME NEW A, NEW B, A \subseteq B
    PROVE  Goes(<<>>, A, B)
  <1>1. <<>> \in Seq(Tidy) /\ Len(<<>>) = 0  OBVIOUS
  <1>2. Joins(<<>>)  BY <1>1 DEF Joins
  <1>3. QED  BY <1>1, <1>2 DEF Goes

\* The sets of the ends.
LEMMA Ends ==
    /\ {"open"} \subseteq Either /\ Done \subseteq Either /\ {"open"} \subseteq Ready
    /\ Either \subseteq Class /\ Done \subseteq Class /\ Ready \subseteq Class
    /\ {"open"} \subseteq Class /\ {"comma"} \subseteq Class
  BY DEF Either, Done, Ready, Class

\* The lists of the declarations.
LEMMA VariablesGo ==
    \A items \in Variable : Goes(items, {"open"}, {"open"})
  <1> DEFINE name == <<goodLook, W(<<"t", "w">>)>>
             size == W(<<"[", "w", "]">>)
             expr == <<W(<<"o">>), Expr>>
             list == <<W(<<"o">>), Initializers>>
             semi == <<W(<<";">>)>>
             whole(dim, init) == name \o dim \o init \o semi
             O == {"open"}
  <1>1. Goes(name, O, Done)  BY MovesOthers, MovesMore, GoesTwo
  <1>2. Goes(<<size>>, Done, Done)  BY MovesMore, GoesOne
  <1>3. Goes(expr, Done, Done)  BY MovesOthers, MovesOne, GoesTwo
  <1>4. Goes(list, Done, Either)  BY MovesOthers, MovesOne, GoesTwo
  <1>5. Goes(semi, Either, O)  BY MovesOne, GoesOne
  <1>6. Goes(<<>>, Done, Done) /\ Goes(<<>>, Done, Either)  BY GoesNowhere, Ends
  <1>7. Variable = {whole(dim, init) :
                       dim \in Optional(size), init \in {<<>>, expr, list}}
    BY DEF Variable
  <1> HIDE DEF name, size, expr, list, semi, O
  <1>8. Goes(expr, Done, Either)  BY <1>3, GoesWeaker, Ends
  <1>9. ASSUME NEW items \in Variable PROVE Goes(items, O, O)
    <2>1. PICK dim \in Optional(size), init \in {<<>>, expr, list} :
                   items = whole(dim, init)
      <3> HIDE DEF whole
      <3>1. QED  BY <1>7, <1>9
    <2>2. Goes(dim, Done, Done)  BY <1>2, <1>6 DEF Optional
    <2>3. Goes(init, Done, Either)  BY <1>4, <1>6, <1>8
    <2>4. Goes(name \o dim, O, Done)  BY <1>1, <2>2, GoesOn
    <2>5. Goes(name \o dim \o init, O, Either)  BY <2>3, <2>4, GoesOn
    <2>6. QED  BY <1>5, <2>1, <2>5, GoesOn
  <1>10. QED  BY <1>9 DEF O

\* The lists of the parameters and the expressions.
LEMMA ListsGo ==
    /\ Goes(<<goodLook, W(<<"t", "w", ",">>)>>, Ready, {"comma"})
    /\ Goes(<<goodLook, W(<<"t", "w">>)>>, Ready, Done)
    /\ \A text \in Leaf : /\ Goes(<<W(text)>>, Ready, Done)
                          /\ Goes(<<W(text), W(<<",">>)>>, Ready, {"comma"})
    /\ Goes(<<Expr, W(<<"o">>), Expr>>, Ready, Done)
    /\ Goes(<<W(<<"u">>), Expr>>, Ready, Done)
    /\ Goes(<<W(<<"w", "[">>), Expr, W(<<"]">>)>>, Ready, Done)
    /\ Goes(<<>>, {"open"}, Either) /\ Goes(<<Initializers>>, {"open"}, Either)
    /\ Goes(<<Expr>>, {"open"}, Either)
  <1>1. /\ Goes(<<goodLook, W(<<"t", "w", ",">>)>>, Ready, {"comma"})
        /\ Goes(<<goodLook, W(<<"t", "w">>)>>, Ready, Done)
    BY MovesOthers, MovesMore, GoesTwo
  <1>2. ASSUME NEW text \in Leaf
        PROVE  /\ Goes(<<W(text)>>, Ready, Done)
               /\ Goes(<<W(text), W(<<",">>)>>, Ready, {"comma"})
    <2>1. Moves(W(text), Ready, Done)  BY MovesOne, MovesMore DEF Leaf
    <2>2. QED  BY <2>1, MovesOne, GoesOne, GoesTwo
  <1>3. Goes(<<Expr, W(<<"o">>), Expr>>, Ready, Done)
    <2>1. Moves(Expr, Ready, Done) /\ Moves(W(<<"o">>), Done, {"open"})
          /\ Moves(Expr, {"open"}, Done)
      BY MovesOthers, MovesOne
    <2>2. QED  BY <2>1, GoesThree
  <1>4. Goes(<<W(<<"u">>), Expr>>, Ready, Done)
    BY MovesOthers, MovesOne, GoesTwo
  <1>5. Goes(<<W(<<"w", "[">>), Expr, W(<<"]">>)>>, Ready, Done)
    BY MovesOthers, MovesOne, MovesMore, GoesThree
  <1>6. Goes(<<>>, {"open"}, Either) /\ Goes(<<Initializers>>, {"open"}, Either)
    BY MovesOthers, GoesOne, GoesNowhere, Ends
  <1>7. Goes(<<Expr>>, {"open"}, Either)
    <2>1. Goes(<<Expr>>, {"open"}, Done)  BY MovesOthers, GoesOne
    <2>2. QED  BY <2>1, GoesWeaker, Ends
  <1>8. QED  BY <1>1, <1>2, <1>3, <1>4, <1>5, <1>6, <1>7

\* A body.
LEMMA BodyGoes == Goes(Body, Either, {"open"})
  <1>1. /\ Moves(W(<<"{">>), Either, {"open"}) /\ Moves(Deeper, {"open"}, {"open"})
        /\ Moves(Stmts, {"open"}, {"open"}) /\ Moves(Shallower, {"open"}, {"open"})
        /\ Moves(goodLook, {"open"}, Ready) /\ Moves(W(<<"}">>), Ready, {"open"})
    BY MovesOthers, MovesOne
  <1>2. QED  BY <1>1, GoesSix DEF Body

\* The lists of the statements.
LEMMA StatementsGo ==
    \A items \in UNION {Variable, Return, Jump, ExprStmt, For, While, If} :
        Goes(items, {"open"}, {"open"})
  <1> DEFINE begin == <<goodLook, W(<<"t", "(">>)>>
             semi == <<W(<<";">>)>>
             end == <<W(<<")">>)>>
             test == <<goodLook, W(<<"t", "(">>), Expr, W(<<")">>)>>
             word == <<goodLook, W(<<"t">>)>>
             Loop(e1, e2, e3) == begin \o e1 \o semi \o e2 \o semi \o e3 \o end \o Body
             O == {"open"}
  <1>1. Goes(begin, O, O)  BY MovesOthers, MovesMore, GoesTwo
  <1>2. Goes(semi, Either, O)  BY MovesOne, GoesOne
  <1>3. Goes(end, Either, Either)
    <2>1. Goes(end, Either, Done)  BY MovesOne, GoesOne
    <2>2. QED  BY <2>1, GoesWeaker, Ends
  <1>4. Goes(test, O, Either)
    <2>1. /\ Moves(goodLook, O, Ready) /\ Moves(W(<<"t", "(">>), Ready, O)
          /\ Moves(Expr, O, Done) /\ Moves(W(<<")">>), Done, Done)
      BY MovesOthers, MovesOne, MovesMore
    <2>2. Goes(test, O, Done)  BY <2>1, GoesFour
    <2>3. QED  BY <2>2, GoesWeaker, Ends
  <1>5. Goes(word, O, O)  BY MovesOthers, MovesOne, GoesTwo
  <1>6. Goes(Body, Either, O)  BY BodyGoes
  <1>7. /\ Goes(<<goodLook, W(<<"t", ";">>)>>, O, O)
        /\ Goes(<<goodLook, Expr, W(<<";">>)>>, O, O)
    BY MovesOthers, MovesOne, MovesMore, GoesTwo, GoesThree
  <1>8. \A e \in Optional(Expr) : Goes(e, O, Either)
    BY ListsGo DEF Optional
  <1>9. \A items \in Variable : Goes(items, O, O)  BY VariablesGo
  <1>10. \A items \in Jump \cup ExprStmt : Goes(items, O, O)  BY <1>7 DEF Jump, ExprStmt
  <1>11. Return = {word \o e \o semi : e \in Optional(Expr)}  BY DEF Return
  <1>12. For = {Loop(e1, e2, e3) : e1 \in Optional(Expr), e2 \in Optional(Expr),
                                   e3 \in Optional(Expr)}
    BY DEF For
  <1>13. While = {test \o Body}  BY DEF While
  <1>14. If = {test \o Body \o else : else \in {<<>>, word \o Body}}  BY DEF If
  <1> HIDE DEF begin, semi, end, test, word, O
  <1>15. ASSUME NEW items \in Return PROVE Goes(items, O, O)
    <2>1. PICK e \in Optional(Expr) : items = word \o e \o semi  BY <1>11, <1>15
    <2>2. Goes(word \o e, O, Either)  BY <1>5, <1>8, GoesOn
    <2>3. QED  BY <1>2, <2>1, <2>2, GoesOn
  <1>16. ASSUME NEW items \in For PROVE Goes(items, O, O)
    <2>1. PICK e1 \in Optional(Expr), e2 \in Optional(Expr), e3 \in Optional(Expr) :
                   items = Loop(e1, e2, e3)
      <3> HIDE DEF Loop
      <3>1. QED  BY <1>12, <1>16
    <2>2. Goes(e1, O, Either) /\ Goes(e2, O, Either) /\ Goes(e3, O, Either)  BY <1>8
    <2>3. Goes(begin \o e1, O, Either)  BY <1>1, <2>2, GoesOn
    <2>4. Goes(begin \o e1 \o semi, O, O)  BY <1>2, <2>3, GoesOn
    <2>5. Goes(begin \o e1 \o semi \o e2, O, Either)  BY <2>2, <2>4, GoesOn
    <2>6. Goes(begin \o e1 \o semi \o e2 \o semi, O, O)  BY <1>2, <2>5, GoesOn
    <2>7. Goes(begin \o e1 \o semi \o e2 \o semi \o e3, O, Either)  BY <2>2, <2>6, GoesOn
    <2>8. Goes(begin \o e1 \o semi \o e2 \o semi \o e3 \o end, O, Either)
      BY <1>3, <2>7, GoesOn
    <2>9. QED  BY <1>6, <2>1, <2>8, GoesOn
  <1>17. Goes(test \o Body, O, O)  BY <1>4, <1>6, GoesOn
  <1>18. ASSUME NEW items \in If PROVE Goes(items, O, O)
    <2>1. PICK else \in {<<>>, word \o Body} : items = test \o Body \o else
      BY <1>14, <1>18
    <2>2. CASE else = <<>>
      <3>1. Goes(<<>>, O, O)  BY GoesNowhere
      <3>2. QED  BY <1>17, <2>1, <2>2, <3>1, GoesOn
    <2>3. CASE else = word \o Body
      <3>1. O \subseteq Either  BY Ends DEF O
      <3>2. Goes(word, O, Either)  BY <1>5, <3>1, GoesWeaker
      <3>3. Goes(word \o Body, O, O)  BY <1>6, <3>2, GoesOn
      <3>4. QED  BY <1>17, <2>1, <2>3, <3>3, GoesOn
    <2>4. QED  BY <2>1, <2>2, <2>3
  <1>19. QED  BY <1>9, <1>10, <1>13, <1>15, <1>16, <1>17, <1>18 DEF O

-----------------------------------------------------------------------------
(* The commas that are still to be written.                                *)

\* What may stand in front of the parameters, or the arguments, of a list.
Quiet == {"write", "goodLook"}

\* The items `what` stand together near the top of the stack, and num is the number of
\* commas between them; when there is none, num counts nothing.
Placed(list, what, num, p, n) ==
    /\ p + n <= Len(list)
    /\ \A i \in 1 .. Len(list) : list[i].what = what <=> (p < i /\ i <= p + n)
    /\ n > 0 => num = n - 1 /\ \A i \in 1 .. p : list[i].what \in Quiet
Pending(list, what, num) == \E p \in Nat, n \in Nat : Placed(list, what, num, p, n)

\* No item of a list is a `what`.
None(list, what) == \A i \in 1 .. Len(list) : list[i].what # what

\* Then num counts nothing.
LEMMA PendingNone ==
    ASSUME NEW s \in Seq(Item), NEW what, None(s, what), NEW num
    PROVE  Pending(s, what, num)
  <1>1. Len(s) \in Nat /\ 0 \in Nat /\ 0 + 0 <= Len(s)  OBVIOUS
  <1>2. \A i \in 1 .. Len(s) : s[i].what = what <=> (0 < i /\ i <= 0 + 0)
    BY <1>1 DEF None
  <1>3. Placed(s, what, num, 0, 0)  BY <1>1, <1>2 DEF Placed
  <1>4. QED  BY <1>3 DEF Pending

\* Below an item of another kind there is none, unless that item is quiet.
LEMMA PendingBelow ==
    ASSUME NEW s \in Seq(Item), s # <<>>, NEW what, NEW num, Pending(s, what, num),
           Head(s).what \notin Quiet \cup {what}
    PROVE  None(Tail(s), what)
  <1>1. PICK p \in Nat, n \in Nat :
            /\ p + n <= Len(s)
            /\ \A i \in 1 .. Len(s) : s[i].what = what <=> (p < i /\ i <= p + n)
            /\ n > 0 => num = n - 1 /\ \A i \in 1 .. p : s[i].what \in Quiet
    BY DEF Pending, Placed
  <1>2. Head(s) = s[1] /\ Len(s) \in Nat /\ 1 \in 1 .. Len(s)  OBVIOUS
  <1>3. n = 0
    <2>1. p = 0 => n = 0  BY <1>1, <1>2
    <2>2. p # 0 => 1 \in 1 .. p  BY <1>1
    <2>3. QED  BY <1>1, <1>2, <2>1, <2>2
  <1>4. \A i \in 1 .. Len(s) : s[i].what # what  BY <1>1, <1>3
  <1>5. Len(Tail(s)) = Len(s) - 1 /\ \A i \in 1 .. Len(s) - 1 : Tail(s)[i] = s[i + 1]
    OBVIOUS
  <1>6. \A i \in 1 .. Len(s) - 1 : i + 1 \in 1 .. Len(s)  BY <1>2
  <1>7. QED  BY <1>4, <1>5, <1>6 DEF None

\* Two lists without any.
LEMMA NoneConcat ==
    ASSUME NEW s \in Seq(Item), NEW t \in Seq(Item), NEW what, None(s, what), None(t, what)
    PROVE  s \o t \in Seq(Item) /\ None(s \o t, what)
  <1> DEFINE n == Len(s)
             k == Len(t)
             u == s \o t
  <1>1. /\ n \in Nat /\ k \in Nat /\ Len(u) = n + k /\ u \in Seq(Item)
        /\ \A i \in 1 .. n : u[i] = s[i]
        /\ \A i \in n + 1 .. n + k : u[i] = t[i - n]
    OBVIOUS
  <1>2. (\A i \in 1 .. n : s[i].what # what) /\ (\A i \in 1 .. k : t[i].what # what)
    BY DEF None
  <1> HIDE DEF n, k, u
  <1>3. ASSUME NEW i \in 1 .. n + k PROVE u[i].what # what
    <2>1. CASE i \in 1 .. n  BY <1>1, <1>2, <2>1
    <2>2. CASE i \notin 1 .. n
      <3>1. i \in n + 1 .. n + k /\ i - n \in 1 .. k  BY <1>1, <2>2
      <3>2. QED  BY <1>1, <1>2, <3>1
    <2>3. QED  BY <2>1, <2>2
  <1>4. QED  BY <1>1, <1>3 DEF None, u

\* The item at the top, which is no `what`, goes.
LEMMA PendingTail ==
    ASSUME NEW s \in Seq(Item), s # <<>>, NEW what, NEW num, Pending(s, what, num),
           Head(s).what # what
    PROVE  Pending(Tail(s), what, num)
  <1>1. PICK p \in Nat, n \in Nat :
            /\ p + n <= Len(s)
            /\ \A i \in 1 .. Len(s) : s[i].what = what <=> (p < i /\ i <= p + n)
            /\ n > 0 => num = n - 1 /\ \A i \in 1 .. p : s[i].what \in Quiet
    BY DEF Pending, Placed
  <1> DEFINE t == Tail(s)
  <1>2. /\ Head(s) = s[1] /\ Len(s) \in Nat /\ 1 \in 1 .. Len(s) /\ t \in Seq(Item)
        /\ Len(t) = Len(s) - 1 /\ \A i \in 1 .. Len(s) - 1 : t[i] = s[i + 1]
    OBVIOUS
  <1> HIDE DEF t
  <1>3. \A i \in 1 .. Len(t) : i + 1 \in 1 .. Len(s) /\ t[i] = s[i + 1]  BY <1>2
  <1>4. CASE n = 0
    <2>1. \A i \in 1 .. Len(s) : s[i].what # what  BY <1>1, <1>4
    <2>2. None(t, what)  BY <1>3, <2>1 DEF None
    <2>3. QED  BY <1>2, <2>2, PendingNone DEF t
  <1>5. CASE n # 0
    <2>1. p # 0  BY <1>1, <1>2, <1>5
    <2>2. PICK q \in Nat : p = q + 1
      <3>1. p - 1 \in Nat /\ p = (p - 1) + 1  BY <2>1
      <3>2. QED  BY <3>1
    <2>3. q + n <= Len(t)  BY <1>1, <1>2, <2>2
    <2>4. ASSUME NEW i \in 1 .. Len(t)
          PROVE  t[i].what = what <=> (q < i /\ i <= q + n)
      <3>1. s[i + 1].what = what <=> (p < i + 1 /\ i + 1 <= p + n)  BY <1>1, <1>3
      <3>2. (p < i + 1 /\ i + 1 <= p + n) <=> (q < i /\ i <= q + n)  BY <1>2, <2>2
      <3>3. t[i] = s[i + 1]  BY <1>3
      <3>4. QED  BY <3>1, <3>2, <3>3
    <2>5. \A i \in 1 .. q : t[i].what \in Quiet
      <3>1. \A i \in 1 .. q : i + 1 \in 1 .. p /\ i \in 1 .. Len(t)
        BY <1>1, <1>2, <2>2, <2>3
      <3>2. \A i \in 1 .. p : s[i].what \in Quiet  BY <1>1, <1>5
      <3>3. QED  BY <1>3, <3>1, <3>2
    <2>6. num = n - 1  BY <1>1, <1>5
    <2>7. Pending(t, what, num)  BY <2>3, <2>4, <2>5, <2>6 DEF Pending, Placed
    <2>8. QED  BY <2>7 DEF t
  <1>6. QED  BY <1>4, <1>5

\* One of them is at the top: a comma follows it exactly if another one does, and then
\* one comma less is left.
LEMMA PendingNext ==
    ASSUME NEW s \in Seq(Item), s # <<>>, NEW what \in {"arg", "param"}, NEW num \in Int,
           Pending(s, what, num), Head(s).what = what,
           NEW items \in Seq(Item), \A i \in 1 .. Len(items) : items[i].what \in Quiet
    PROVE  /\ num # 0 => Tail(s) # <<>> /\ s[2].what = what
           /\ num = 0 => (Tail(s) # <<>> => s[2].what # what)
           /\ Pending(items \o Tail(s), what, IF num # 0 THEN num - 1 ELSE num)
  <1>1. PICK p \in Nat, n \in Nat :
            /\ p + n <= Len(s)
            /\ \A i \in 1 .. Len(s) : s[i].what = what <=> (p < i /\ i <= p + n)
            /\ n > 0 => num = n - 1 /\ \A i \in 1 .. p : s[i].what \in Quiet
    BY DEF Pending, Placed
  <1> DEFINE t == Tail(s)
             k == Len(items)
             u == items \o t
  <1>2. /\ Head(s) = s[1] /\ Len(s) \in Nat /\ 1 \in 1 .. Len(s) /\ t \in Seq(Item)
        /\ Len(t) = Len(s) - 1 /\ \A i \in 1 .. Len(s) - 1 : t[i] = s[i + 1]
    OBVIOUS
  <1>3. /\ k \in Nat /\ Len(u) = k + Len(t) /\ u \in Seq(Item)
        /\ \A i \in 1 .. k : u[i] = items[i]
        /\ \A i \in k + 1 .. k + Len(t) : u[i] = t[i - k]
    BY <1>2
  <1> HIDE DEF t, k, u
  <1>4. t # <<>> <=> Len(s) > 1  BY <1>2
  <1>5. n > 0 /\ p = 0 /\ num = n - 1
    <2>1. p < 1 /\ 1 <= p + n  BY <1>1, <1>2
    <2>2. p = 0 /\ n > 0  BY <2>1
    <2>3. QED  BY <1>1, <2>2
  <1>6. num # 0 => t # <<>> /\ s[2].what = what
    <2>1. num # 0 => 2 \in 1 .. Len(s) /\ p < 2 /\ 2 <= p + n  BY <1>1, <1>2, <1>5
    <2>2. QED  BY <1>1, <1>2, <1>4, <2>1
  <1>7. num = 0 => (t # <<>> => s[2].what # what)
    <2>1. num = 0 => ~(2 <= p + n)  BY <1>5
    <2>2. t # <<>> => 2 \in 1 .. Len(s)  BY <1>2, <1>4
    <2>3. QED  BY <1>1, <2>1, <2>2
  <1>8. PICK m \in Nat : n = m + 1
    <2>1. n - 1 \in Nat /\ n = (n - 1) + 1  BY <1>5
    <2>2. QED  BY <2>1
  <1>9. ASSUME NEW i \in 1 .. k + Len(t) PROVE u[i].what = what <=> (k < i /\ i <= k + m)
    <2>1. CASE i \in 1 .. k
      <3>1. u[i].what \in Quiet /\ ~(k < i)
        <4>1. \A j \in 1 .. k : items[j].what \in Quiet  BY DEF k
        <4>2. QED  BY <1>3, <2>1, <4>1
      <3>2. QED  BY <3>1 DEF Quiet
    <2>2. CASE i \notin 1 .. k
      <3>1. PICK j \in Nat : i = k + j
        <4>1. i - k \in Nat /\ i = k + (i - k)  BY <1>2, <1>3, <2>2
        <4>2. QED  BY <4>1
      <3>2. i \in k + 1 .. k + Len(t) /\ i - k = j /\ j \in 1 .. Len(s) - 1
            /\ j + 1 \in 1 .. Len(s)
        BY <1>2, <1>3, <2>2, <3>1
      <3>3. u[i] = s[j + 1]  BY <1>2, <1>3, <3>2
      <3>4. s[j + 1].what = what <=> (p < j + 1 /\ j + 1 <= p + n)  BY <1>1, <3>2
      <3>5. (p < j + 1 /\ j + 1 <= p + n) <=> (k < i /\ i <= k + m)
        BY <1>3, <1>5, <1>8, <3>1, <3>2
      <3>6. QED  BY <3>3, <3>4, <3>5
    <2>3. QED  BY <2>1, <2>2
  <1> DEFINE left == IF num # 0 THEN num - 1 ELSE num
  <1>11. m > 0 => left = m - 1  BY <1>5, <1>8
  <1>12. \A i \in 1 .. k : u[i].what \in Quiet
    <2>1. \A j \in 1 .. k : items[j].what \in Quiet  BY DEF k
    <2>2. QED  BY <1>3, <2>1
  <1>13. k + m <= Len(u)  BY <1>1, <1>2, <1>3, <1>5, <1>8
  <1> HIDE DEF left
  <1>14. \A i \in 1 .. Len(u) : u[i].what = what <=> (k < i /\ i <= k + m)
    BY <1>3, <1>9
  <1>15. Placed(u, what, left, k, m)  BY <1>11, <1>12, <1>13, <1>14 DEF Placed
  <1>16. Pending(u, what, left)  BY <1>3, <1>15 DEF Pending
  <1>17. QED  BY <1>6, <1>7, <1>16 DEF t, u, left

\* None is left behind the last of them.
LEMMA LastOne ==
    ASSUME NEW s \in Seq(Item), s # <<>>, NEW what \in {"arg", "param"}, Pending(s, what, 0),
           Head(s).what = what
    PROVE  None(Tail(s), what) /\ (Tail(s) # <<>> => s[2].what # what)
  <1>1. PICK p \in Nat, n \in Nat :
            /\ p + n <= Len(s)
            /\ \A i \in 1 .. Len(s) : s[i].what = what <=> (p < i /\ i <= p + n)
            /\ n > 0 => 0 = n - 1
    BY DEF Pending, Placed
  <1> DEFINE t == Tail(s)
  <1>2. /\ Head(s) = s[1] /\ Len(s) \in Nat /\ 1 \in 1 .. Len(s) /\ t \in Seq(Item)
        /\ Len(t) = Len(s) - 1 /\ \A i \in 1 .. Len(s) - 1 : t[i] = s[i + 1]
    OBVIOUS
  <1>3. t # <<>> => Len(t) # 0  BY <1>2
  <1> HIDE DEF t
  <1>4. p < 1 /\ 1 <= p + n  BY <1>1, <1>2
  <1>5. p = 0 /\ n = 1  BY <1>1, <1>4
  <1>6. ASSUME NEW i \in 1 .. Len(t) PROVE t[i].what # what
    <2>1. i + 1 \in 1 .. Len(s) /\ t[i] = s[i + 1] /\ ~(i + 1 <= p + n)
      BY <1>2, <1>5
    <2>2. QED  BY <1>1, <2>1
  <1>7. t # <<>> => s[2].what # what
    <2>1. t # <<>> => 1 \in 1 .. Len(t) /\ t[1] = s[2]  BY <1>2, <1>3
    <2>2. QED  BY <1>6, <2>1
  <1>8. QED  BY <1>6, <1>7 DEF None, t

\* A new list.
LEMMA PendingList ==
    ASSUME NEW what \in {"arg", "param"}, NEW head \in Item, head.what \in Quiet,
           NEW m \in Nat, NEW rest \in Seq(Item), None(rest, what)
    PROVE  /\ <<head>> \o Times(m, Do(what)) \in Seq(Item)
           /\ Pending((<<head>> \o Times(m, Do(what))) \o rest, what, m - 1)
  <1> DEFINE item == Do(what)
             front == <<head>> \o Times(m, item)
             k == Len(rest)
             u == front \o rest
  <1>1. item \in Item /\ item.what = what  BY DoFacts, FlatItems
  <1> HIDE DEF item
  <1>2. /\ front \in Seq(Item) /\ Len(front) = m + 1 /\ front[1] = head
        /\ \A i \in 2 .. m + 1 : front[i] = item
    <2>1. /\ Times(m, item) \in Seq(Item) /\ Len(Times(m, item)) = m
          /\ \A i \in 1 .. m : Times(m, item)[i] = item
      BY <1>1 DEF Times
    <2>2. QED  BY <2>1
  <1> HIDE DEF front
  <1>3. /\ k \in Nat /\ Len(u) = m + 1 + k
        /\ \A i \in 1 .. m + 1 : u[i] = front[i]
        /\ \A i \in m + 2 .. m + 1 + k : u[i] = rest[i - (m + 1)]
    BY <1>2
  <1>4. \A i \in 1 .. k : rest[i].what # what  BY DEF None
  <1> HIDE DEF u, k
  <1>5. ASSUME NEW i \in 1 .. m + 1 + k PROVE u[i].what = what <=> (1 < i /\ i <= 1 + m)
    <2>1. CASE i = 1
      <3>1. u[i] = head  BY <1>2, <1>3, <2>1
      <3>2. QED  BY <2>1, <3>1 DEF Quiet
    <2>2. CASE i \in 2 .. m + 1
      <3>1. u[i] = item /\ 1 < i /\ i <= 1 + m  BY <1>2, <1>3, <2>2
      <3>2. QED  BY <1>1, <3>1
    <2>3. CASE i \in m + 2 .. m + 1 + k
      <3>1. i - (m + 1) \in 1 .. k /\ ~(i <= 1 + m)  BY <1>3, <2>3
      <3>2. QED  BY <1>3, <1>4, <2>3, <3>1
    <2>4. QED  BY <1>3, <2>1, <2>2, <2>3
  <1>6. u[1].what \in Quiet
    <2>1. u[1] = head  BY <1>2, <1>3
    <2>2. QED  BY <2>1
  <1>7. \A i \in 1 .. 1 : u[i].what \in Quiet  BY <1>6
  <1>8. 1 + m <= Len(u)  BY <1>3
  <1>9. \A i \in 1 .. Len(u) : u[i].what = what <=> (1 < i /\ i <= 1 + m)  BY <1>3, <1>5
  <1>10. Placed(u, what, m - 1, 1, m)  BY <1>7, <1>8, <1>9 DEF Placed
  <1>11. Pending(u, what, m - 1)  BY <1>10 DEF Pending
  <1>12. QED  BY <1>2, <1>11 DEF u, front, item

-----------------------------------------------------------------------------
(* The text that is written.                                               *)

\* Nothing is wrong in a text.
Parted(text) == \A i \in 1 .. Len(text) - 1 : ~BadPair(text[i], text[i + 1])

\* Nothing goes wrong where a text goes on with a character that its end admits.
LEMMA AdmittedPair ==
    ASSUME NEW a \in Char, NEW b \in Char, Ending(a) \in Admits(b)
    PROVE  ~BadPair(a, b)
  BY DEF Ending, Admits, BadPair, Class, Begin, End, Close

\* A neat text behind another.
LEMMA PartedConcat ==
    ASSUME NEW m \in Text, Parted(m), NEW text \in Text, Neat(text),
           EndOf(m) \in Admits(text[1])
    PROVE  Parted(m \o text) /\ EndOf(m \o text) = EndOf(text)
  <1> DEFINE n == Len(m)
             k == Len(text)
             u == m \o text
  <1>1. /\ n \in Nat /\ k \in Nat /\ k # 0 /\ Len(u) = n + k /\ u # <<>> /\ text # <<>>
        /\ \A i \in 1 .. n : u[i] = m[i]
        /\ \A i \in n + 1 .. n + k : u[i] = text[i - n]
        /\ \A i \in 1 .. n : m[i] \in Char
        /\ \A i \in 1 .. k : text[i] \in Char
    BY DEF Text, Neat
  <1>2. \A i \in 1 .. n - 1 : ~BadPair(m[i], m[i + 1])  BY DEF Parted
  <1>3. \A i \in 1 .. k - 1 : ~BadPair(text[i], text[i + 1])  BY DEF Neat
  <1>4. n # 0 => EndOf(m) = Ending(m[n])  BY DEF EndOf, Text
  <1>5. EndOf(text) = Ending(text[k])  BY <1>1 DEF EndOf
  <1> HIDE DEF n, k, u
  <1>6. ASSUME NEW i \in 1 .. n + k - 1 PROVE ~BadPair(u[i], u[i + 1])
    <2>1. CASE i < n
      <3>1. i \in 1 .. n - 1 /\ i \in 1 .. n /\ i + 1 \in 1 .. n  BY <1>1, <2>1
      <3>2. QED  BY <1>1, <1>2, <3>1
    <2>2. CASE i = n
      <3>1. i \in 1 .. n /\ i + 1 \in n + 1 .. n + k /\ (i + 1) - n = 1 /\ n # 0 /\ 1 \in 1 .. k
            /\ n \in 1 .. n
        BY <1>1, <2>2
      <3>2. u[i] = m[n] /\ u[i + 1] = text[1] /\ m[n] \in Char /\ text[1] \in Char
        BY <1>1, <2>2, <3>1
      <3>3. Ending(m[n]) \in Admits(text[1])  BY <1>4, <3>1
      <3>4. QED  BY <3>2, <3>3, AdmittedPair
    <2>3. CASE i > n
      <3>1. PICK j \in Nat : i = n + j
        <4>1. i - n \in Nat /\ i = n + (i - n)  BY <1>1, <2>3
        <4>2. QED  BY <4>1
      <3>2. /\ j \in 1 .. k - 1 /\ i \in n + 1 .. n + k /\ i + 1 \in n + 1 .. n + k
            /\ i - n = j /\ (i + 1) - n = j + 1
        BY <1>1, <2>3, <3>1
      <3>3. u[i] = text[j] /\ u[i + 1] = text[j + 1]  BY <1>1, <3>2
      <3>4. QED  BY <1>3, <3>2, <3>3
    <2>4. QED  BY <1>1, <2>1, <2>2, <2>3
  <1>7. Parted(u)
    <2>1. Len(u) - 1 = n + k - 1  BY <1>1
    <2>2. QED  BY <1>6, <2>1 DEF Parted
  <1>8. EndOf(u) = EndOf(text)
    <2>1. n + k \in n + 1 .. n + k /\ (n + k) - n = k  BY <1>1
    <2>2. u[n + k] = text[k]  BY <1>1, <2>1
    <2>3. EndOf(u) = Ending(u[Len(u)])  BY <1>1 DEF EndOf
    <2>4. u[Len(u)] = text[k]  BY <1>1, <2>2
    <2>5. QED  BY <1>5, <2>3, <2>4
  <1>9. QED  BY <1>7, <1>8 DEF u

\* Ends are classes.
LEMMA EndType ==
    ASSUME NEW text
    PROVE  EndOf(text) \in Class
  BY DEF EndOf, Ending, Class

-----------------------------------------------------------------------------
(* The invariant of the lists.                                             *)

ListsOK ==
    compound = {} =>
        /\ Parted(meant) /\ Goes(todo, {EndOf(meant)}, Class)
        /\ Pending(todo, "arg", argNum) /\ Pending(todo, "param", parmNum)

\* A list takes the place of the item at the top.
LEMMA TakesPlace ==
    ASSUME NEW s, s # <<>>, NEW e, Goes(s, {e}, Class),
           NEW A, NEW B, NEW items, Goes(items, A, B), B \subseteq Class, Entry(s[1]) \subseteq A,
           Tail(s) # <<>> => B \subseteq Exit(s[1], s[2])
    PROVE  Goes(items \o Tail(s), {e}, Class)
  <1> DEFINE C == Class
  <1>1. {e} \subseteq Entry(s[1]) /\ Goes(Tail(s), B, C)
    <2>1. C = Class /\ B \subseteq Class /\ Goes(s, {e}, C)  OBVIOUS
    <2> HIDE DEF C
    <2>2. QED  BY <2>1, GoesFirst
  <1>2. Goes(items, {e}, B)
    <2>1. {e} \subseteq A /\ B \subseteq B  BY <1>1
    <2>2. QED  BY <2>1, GoesWeaker
  <1>3. QED  BY <1>1, <1>2, GoesOn

\* The same for the counts: neither the item nor the list has a `what`.
LEMMA NonePending ==
    ASSUME NEW s \in Seq(Item), s # <<>>, NEW what, NEW num, Pending(s, what, num),
           Head(s).what \notin Quiet \cup {what}, NEW items \in Seq(Item), None(items, what),
           NEW new
    PROVE  Pending(items \o Tail(s), what, new)
  <1>1. None(Tail(s), what) /\ Tail(s) \in Seq(Item)  BY PendingBelow
  <1>2. items \o Tail(s) \in Seq(Item) /\ None(items \o Tail(s), what)
    BY <1>1, NoneConcat
  <1>3. QED  BY <1>2, PendingNone

\* Lists without parameters and arguments.
Bare == {list \in Seq(Item) : None(list, "arg") /\ None(list, "param")}

\* Below a node that is neither a parameter nor an argument there is none of them, nor
\* below the last argument.
LEMMA NothingBelow ==
    ASSUME ListsOK, compound = {}, todo # <<>>, Head(todo).what \notin Quiet,
           Head(todo).what # "param", Head(todo).what = "arg" => argNum = 0
    PROVE  /\ None(Tail(todo), "arg") /\ None(Tail(todo), "param")
           /\ Head(todo).what = "arg" => (Tail(todo) # <<>> => todo[2].what # "arg")
  <1>1. /\ Goes(todo, {EndOf(meant)}, Class)
        /\ Pending(todo, "arg", argNum) /\ Pending(todo, "param", parmNum)
    BY DEF ListsOK
  <1>2. todo \in Seq(Item)  BY <1>1 DEF Goes, Tidy
  <1>3. None(Tail(todo), "param")  BY <1>1, <1>2, PendingBelow
  <1>4. CASE Head(todo).what = "arg"
    <2>1. Pending(todo, "arg", 0)  BY <1>1, <1>4
    <2>2. QED  BY <1>2, <1>3, <1>4, <2>1, LastOne
  <1>5. CASE Head(todo).what # "arg"
    <2>1. None(Tail(todo), "arg")  BY <1>1, <1>2, <1>5, PendingBelow
    <2>2. QED  BY <1>3, <1>5, <2>1
  <1>6. QED  BY <1>4, <1>5

\* What visits a node and counts nothing keeps the invariant.
LEMMA BareVisit ==
    ASSUME IInv, ListsOK, compound = {}, todo # <<>>,
           None(Tail(todo), "arg"), None(Tail(todo), "param"),
           NEW A, NEW B, NEW items, Goes(items, A, B), B \subseteq Class, items \in Bare,
           Entry(todo[1]) \subseteq A, Tail(todo) # <<>> => B \subseteq Exit(todo[1], todo[2]),
           Visit(items), UNCHANGED meant
    PROVE  ListsOK'
  <1>1. Parted(meant) /\ Goes(todo, {EndOf(meant)}, Class)  BY DEF ListsOK
  <1>2. Tail(todo) \in Seq(Item)
    <2>1. todo \in Seq(Item)  BY <1>1 DEF Goes, Tidy
    <2>2. QED  BY <2>1
  <1>3. Goes(items \o Tail(todo), {EndOf(meant)}, Class)  BY <1>1, TakesPlace
  <1>4. items \in Seq(Item) /\ None(items, "arg") /\ None(items, "param")  BY DEF Bare
  <1>5. /\ items \o Tail(todo) \in Seq(Item)
        /\ None(items \o Tail(todo), "arg") /\ None(items \o Tail(todo), "param")
    BY <1>2, <1>4, NoneConcat
  <1>6. \A new : Pending(items \o Tail(todo), "arg", new)
                 /\ Pending(items \o Tail(todo), "param", new)
    BY <1>5, PendingNone
  <1>7. todo' = items \o Tail(todo) /\ meant' = meant  BY DEF Visit
  <1>8. QED  BY <1>1, <1>3, <1>6, <1>7 DEF ListsOK

\* The items that are no parameter and no argument.
Calm == {item \in Item : item.what \notin {"arg", "param"}}

\* Lists of them are bare.
LEMMA CalmLists ==
    /\ Seq(Calm) \subseteq Bare
    /\ \A text \in Text : W(text) \in Calm
    /\ {goodLook, Expr, Stmts, Deeper, Shallower, Components, Initializers} \subseteq Calm
  <1>1. ASSUME NEW s \in Seq(Calm) PROVE s \in Bare
    BY DEF Bare, None, Calm
  <1>2. \A text \in Text : W(text) \in Calm  BY WriteFacts, FlatItems DEF Calm
  <1>3. ASSUME NEW what \in What, what \notin {"write", "arg", "param"} PROVE Do(what) \in Calm
    BY <1>3, OpenEmpty DEF Do, Calm, Item
  <1>4. {goodLook, Expr, Stmts, Deeper, Shallower, Components, Initializers} \subseteq Calm
    BY <1>3 DEF What, goodLook, Expr, Stmts, Deeper, Shallower, Components, Initializers
  <1>5. QED  BY <1>1, <1>2, <1>4

\* The texts of the visitors are written by calm items.
LEMMA CalmWrites ==
    /\ \A text \in Plain : W(text) \in Calm
    /\ W(<<"{">>) \in Calm /\ W(<<"}">>) \in Calm /\ W(<<")", "{">>) \in Calm
  <1>1. <<"{">> \in Text /\ <<"}">> \in Text /\ <<")", "{">> \in Text
    <2>1. "{" \in Char /\ "}" \in Char /\ ")" \in Char  BY Letters
    <2>2. QED  BY <2>1, OpenOne, OpenTwo
  <1>2. QED  BY <1>1, PlainTexts, CalmLists

\* Short lists of calm items.
LEMMA CalmTuples ==
    /\ <<>> \in Seq(Calm)
    /\ \A a \in Calm : <<a>> \in Seq(Calm)
    /\ \A a, b \in Calm : <<a, b>> \in Seq(Calm)
    /\ \A a, b, c \in Calm : <<a, b, c>> \in Seq(Calm)
    /\ \A a, b, c, d \in Calm : <<a, b, c, d>> \in Seq(Calm)
    /\ \A a, b, c, d, e \in Calm : <<a, b, c, d, e>> \in Seq(Calm)
    /\ \A a, b, c, d, e, f \in Calm : <<a, b, c, d, e, f>> \in Seq(Calm)
  OBVIOUS

\* The lists of the declarations have no parameter and no argument.
LEMMA VariablesAreCalm ==
    \A items \in Variable : items \in Seq(Calm)
  <1> DEFINE name == <<goodLook, W(<<"t", "w">>)>>
             size == W(<<"[", "w", "]">>)
             expr == <<W(<<"o">>), Expr>>
             list == <<W(<<"o">>), Initializers>>
             semi == <<W(<<";">>)>>
             whole(dim, init) == name \o dim \o init \o semi
  <1>1. goodLook \in Calm /\ Expr \in Calm /\ Initializers \in Calm  BY CalmLists
  <1>2. /\ W(<<"t", "w">>) \in Calm /\ size \in Calm /\ W(<<"o">>) \in Calm
        /\ W(<<";">>) \in Calm
    BY CalmWrites DEF Plain
  <1>3. /\ name \in Seq(Calm) /\ <<size>> \in Seq(Calm) /\ expr \in Seq(Calm)
        /\ list \in Seq(Calm) /\ semi \in Seq(Calm) /\ <<>> \in Seq(Calm)
    BY <1>1, <1>2, CalmTuples
  <1>4. Variable = {whole(dim, init) :
                       dim \in Optional(size), init \in {<<>>, expr, list}}
    BY DEF Variable
  <1> HIDE DEF name, size, expr, list, semi
  <1>5. ASSUME NEW items \in Variable PROVE items \in Seq(Calm)
    <2>1. PICK dim \in Optional(size), init \in {<<>>, expr, list} :
                   items = whole(dim, init)
      <3> HIDE DEF whole
      <3>1. QED  BY <1>4, <1>5
    <2>2. dim \in Seq(Calm) /\ init \in Seq(Calm)  BY <1>3 DEF Optional
    <2>3. QED  BY <1>3, <2>1, <2>2
  <1>6. QED  BY <1>5

\* The lists of the statements have no parameter and no argument.
LEMMA StatementsAreCalm ==
    /\ \A items \in UNION {Variable, Return, Jump, ExprStmt, For, While, If} :
           items \in Seq(Calm)
    /\ Body \in Seq(Calm)
  <1> DEFINE begin == <<goodLook, W(<<"t", "(">>)>>
             semi == <<W(<<";">>)>>
             end == <<W(<<")">>)>>
             test == <<goodLook, W(<<"t", "(">>), Expr, W(<<")">>)>>
             word == <<goodLook, W(<<"t">>)>>
             Loop(e1, e2, e3) == begin \o e1 \o semi \o e2 \o semi \o e3 \o end \o Body
  <1>1. goodLook \in Calm /\ Expr \in Calm /\ Stmts \in Calm /\ Deeper \in Calm /\ Shallower \in Calm
    BY CalmLists
  <1>2. /\ W(<<"t">>) \in Calm /\ W(<<";">>) \in Calm /\ W(<<"t", ";">>) \in Calm
        /\ W(<<"t", "(">>) \in Calm /\ W(<<")">>) \in Calm
        /\ W(<<"{">>) \in Calm /\ W(<<"}">>) \in Calm
    BY CalmWrites DEF Plain
  <1>3. /\ begin \in Seq(Calm) /\ semi \in Seq(Calm) /\ end \in Seq(Calm) /\ test \in Seq(Calm)
        /\ word \in Seq(Calm)
    BY <1>1, <1>2, CalmTuples
  <1>4. Body \in Seq(Calm)  BY <1>1, <1>2, CalmTuples DEF Body
  <1>5. \A e \in Optional(Expr) : e \in Seq(Calm)  BY <1>1, CalmTuples DEF Optional
  <1>6. /\ <<goodLook, W(<<"t", ";">>)>> \in Seq(Calm)
        /\ <<goodLook, Expr, W(<<";">>)>> \in Seq(Calm)
    BY <1>1, <1>2, CalmTuples
  <1>8. \A items \in Variable : items \in Seq(Calm)  BY VariablesAreCalm
  <1>9. \A items \in Jump \cup ExprStmt : items \in Seq(Calm)  BY <1>6 DEF Jump, ExprStmt
  <1>10. Return = {word \o e \o semi : e \in Optional(Expr)}  BY DEF Return
  <1>11. For = {Loop(e1, e2, e3) : e1 \in Optional(Expr), e2 \in Optional(Expr),
                                   e3 \in Optional(Expr)}
    BY DEF For
  <1>12. While = {test \o Body}  BY DEF While
  <1>13. If = {test \o Body \o else : else \in {<<>>, word \o Body}}  BY DEF If
  <1> HIDE DEF begin, semi, end, test, word
  <1>14. ASSUME NEW s \in Seq(Calm), NEW t \in Seq(Calm) PROVE s \o t \in Seq(Calm)
    OBVIOUS
  <1>15. ASSUME NEW items \in Return PROVE items \in Seq(Calm)
    BY <1>3, <1>5, <1>10, <1>14, <1>15
  <1>16. ASSUME NEW items \in For PROVE items \in Seq(Calm)
    <2>1. PICK e1 \in Optional(Expr), e2 \in Optional(Expr), e3 \in Optional(Expr) :
                   items = Loop(e1, e2, e3)
      <3> HIDE DEF Loop
      <3>1. QED  BY <1>11, <1>16
    <2>2. e1 \in Seq(Calm) /\ e2 \in Seq(Calm) /\ e3 \in Seq(Calm)  BY <1>5
    <2>3. begin \o e1 \o semi \o e2 \in Seq(Calm)  BY <1>3, <1>14, <2>2
    <2>4. begin \o e1 \o semi \o e2 \o semi \o e3 \o end \in Seq(Calm)
      BY <1>3, <1>14, <2>2, <2>3
    <2>5. QED  BY <1>4, <1>14, <2>1, <2>4
  <1>17. ASSUME NEW items \in While PROVE items \in Seq(Calm)
    BY <1>3, <1>4, <1>12, <1>14, <1>17
  <1>18. ASSUME NEW items \in If PROVE items \in Seq(Calm)
    <2>1. PICK else \in {<<>>, word \o Body} : items = test \o Body \o else
      BY <1>13, <1>18
    <2>2. else \in Seq(Calm)
      <3>1. word \o Body \in Seq(Calm) /\ <<>> \in Seq(Calm)  BY <1>3, <1>4, <1>14
      <3>2. QED  BY <2>1, <3>1
    <2>3. QED  BY <1>3, <1>4, <1>14, <2>1, <2>2
  <1>19. QED  BY <1>4, <1>8, <1>9, <1>15, <1>16, <1>17, <1>18

\* What is written, indented or nested.
LEMMA DoneLists ==
    ASSUME IInv, ListsOK, compound = {}, todo # <<>>, Visit(<<>>), Uncounted,
           Head(todo).what \notin {"arg", "param"},
           NEW text \in Text, meant' = meant \o text, Parted(meant'),
           \A next : EndOf(meant') \in Exit(Head(todo), next)
    PROVE  ListsOK'
  <1>1. /\ Goes(todo, {EndOf(meant)}, Class)
        /\ Pending(todo, "arg", argNum) /\ Pending(todo, "param", parmNum)
    BY DEF ListsOK
  <1>2. todo \in Seq(Item) /\ Head(todo) = todo[1]  BY <1>1 DEF Goes, Tidy
  <1>3. todo' = Tail(todo)
    <2>1. Tail(todo) \in Seq(Item)  BY <1>2
    <2>2. QED  BY <2>1 DEF Visit
  <1>4. PICK e : e = EndOf(meant')  OBVIOUS
  <1>5. Goes(Tail(todo), {e}, Class)
    <2> DEFINE B == {e}
               C == Class
               A == {EndOf(meant)}
    <2>1. B \subseteq Class  BY <1>4, EndType
    <2>2. B \subseteq Exit(todo[1], todo[2])  BY <1>2, <1>4
    <2>3. C = Class /\ Goes(todo, A, C)  BY <1>1
    <2> HIDE DEF A, B, C
    <2>4. Goes(Tail(todo), B, C)  BY <2>1, <2>2, <2>3, GoesFirst
    <2>5. QED  BY <2>4 DEF B, C
  <1>6. Pending(Tail(todo), "arg", argNum) /\ Pending(Tail(todo), "param", parmNum)
    BY <1>1, <1>2, PendingTail
  <1>7. argNum' = argNum /\ parmNum' = parmNum  BY DEF Uncounted
  <1>8. Goes(todo', {EndOf(meant')}, Class)  BY <1>3, <1>4, <1>5
  <1>9. QED  BY <1>3, <1>6, <1>7, <1>8 DEF ListsOK

\* The text that is written is neat and the end before it admits it.
LEMMA WriteKeepsLists ==
    ASSUME IInv, ListsOK, compound = {}, WriteText
    PROVE  ListsOK'
  <1>1. /\ todo # <<>> /\ Head(todo).what = "write" /\ Visit(<<>>) /\ Uncounted
        /\ meant' = meant \o Head(todo).text
    BY DEF WriteText, At, write
  <1>2. Parted(meant) /\ Goes(todo, {EndOf(meant)}, Class) /\ meant \in Text
    BY DEF ListsOK, IInv, BufferOK
  <1>3. /\ Head(todo) \in Tidy /\ Head(todo) = todo[1]
        /\ EndOf(meant) \in Entry(Head(todo))
    BY <1>1, <1>2 DEF Goes
  <1> DEFINE text == Head(todo).text
  <1>4. text \in Text /\ Neat(text) /\ EndOf(meant) \in Admits(text[1])
    BY <1>1, <1>3 DEF Tidy, Item, Entry
  <1>5. \A next : Exit(Head(todo), next) = {EndOf(text)}  BY <1>1 DEF Exit
  <1> HIDE DEF text
  <1>6. Parted(meant \o text) /\ EndOf(meant \o text) = EndOf(text)
    BY <1>2, <1>4, PartedConcat
  <1>7. meant' = meant \o text  BY <1>1 DEF text
  <1>8. Parted(meant') /\ \A next : EndOf(meant') \in Exit(Head(todo), next)
    BY <1>5, <1>6, <1>7
  <1>9. QED  BY <1>1, <1>4, <1>7, <1>8, DoneLists

\* Tabs may stand between all that they stand between, and there may be none.
LEMMA LookKeepsLists ==
    ASSUME IInv, ListsOK, compound = {}, GoodLook
    PROVE  ListsOK'
  <1> DEFINE tabs == Times(deepth, "tab")
  <1>1. /\ todo # <<>> /\ Head(todo).what = "goodLook" /\ Visit(<<>>) /\ Uncounted
        /\ meant' = meant \o tabs
    BY DEF GoodLook, At, write
  <1>2. /\ Parted(meant) /\ Goes(todo, {EndOf(meant)}, Class) /\ meant \in Text
        /\ deepth \in Nat
    BY DEF ListsOK, IInv, BufferOK
  <1>3. EndOf(meant) \in Ready /\ \A next : Exit(Head(todo), next) = Ready
    <2>1. EndOf(meant) \in Entry(Head(todo))  BY <1>1, <1>2 DEF Goes
    <2>2. QED  BY <1>1, <2>1 DEF Entry, Exit
  <1>4. /\ tabs \in Text /\ Len(tabs) = deepth /\ \A i \in 1 .. deepth : tabs[i] = "tab"
    <2>1. "tab" \in Char  BY Letters
    <2>2. QED  BY <1>2, <2>1 DEF Times, Text
  <1> HIDE DEF tabs
  <1>5. CASE deepth = 0
    <2>1. tabs = <<>>  BY <1>4, <1>5 DEF Text
    <2>2. meant' = meant  BY <1>1, <1>2, <2>1 DEF Text
    <2>3. Parted(meant') /\ \A next : EndOf(meant') \in Exit(Head(todo), next)
      BY <1>2, <1>3, <2>2
    <2>4. QED  BY <1>1, <1>4, <2>3, DoneLists
  <1>6. CASE deepth # 0
    <2>1. Neat(tabs)
      <3>1. ~BadPair("tab", "tab")  BY DEF BadPair, End
      <3>2. \A i \in 1 .. Len(tabs) - 1 : tabs[i] = "tab" /\ tabs[i + 1] = "tab"
        BY <1>2, <1>4
      <3>3. tabs # <<>>  BY <1>4, <1>6
      <3>4. QED  BY <3>1, <3>2, <3>3 DEF Neat
    <2>2. tabs[1] = "tab" /\ tabs[deepth] = "tab"  BY <1>2, <1>4, <1>6
    <2>3. EndOf(meant) \in Admits(tabs[1])
      BY <1>3, <2>2, EndType DEF Admits, Ready, Close
    <2>4. EndOf(tabs) \in Ready
      <3>1. tabs # <<>> /\ tabs[Len(tabs)] = "tab"  BY <1>4, <1>6, <2>2
      <3>2. QED  BY <3>1 DEF EndOf, Ending, End, Ready
    <2>5. Parted(meant \o tabs) /\ EndOf(meant \o tabs) = EndOf(tabs)
      BY <1>2, <1>4, <2>1, <2>3, PartedConcat
    <2>6. Parted(meant') /\ \A next : EndOf(meant') \in Exit(Head(todo), next)
      BY <1>1, <1>3, <2>4, <2>5
    <2>7. QED  BY <1>1, <1>4, <2>6, DoneLists
  <1>7. QED  BY <1>2, <1>5, <1>6

\* A change of the indentation writes nothing.
LEMMA NestKeepsLists ==
    ASSUME IInv, ListsOK, compound = {}, Nest
    PROVE  ListsOK'
  <1>1. /\ todo # <<>> /\ Head(todo).what \in {"deeper", "shallower"} /\ Visit(<<>>)
        /\ Uncounted /\ meant' = meant
    BY DEF Nest, At, Unwritten
  <1>2. Parted(meant) /\ Goes(todo, {EndOf(meant)}, Class) /\ meant \in Text
    BY DEF ListsOK, IInv, BufferOK
  <1>3. EndOf(meant) \in {"open"} /\ \A next : Exit(Head(todo), next) = {"open"}
    <2>1. EndOf(meant) \in Entry(Head(todo))  BY <1>1, <1>2 DEF Goes
    <2>2. QED  BY <1>1, <2>1 DEF Entry, Exit
  <1>4. <<>> \in Text /\ meant' = meant \o <<>>  BY <1>1, <1>2 DEF Text
  <1>5. Parted(meant') /\ \A next : EndOf(meant') \in Exit(Head(todo), next)
    BY <1>1, <1>2, <1>3
  <1>6. Head(todo).what \notin {"arg", "param"}  BY <1>1
  <1>7. QED  BY <1>1, <1>4, <1>5, <1>6, DoneLists

\* An expression, or the last argument of a call, is between what is not the end of an
\* item and what follows one.
LEMMA ExpressionBelow ==
    ASSUME ListsOK, compound = {}, At("expr") \/ (At("arg") /\ argNum = 0)
    PROVE  /\ None(Tail(todo), "arg") /\ None(Tail(todo), "param")
           /\ Entry(todo[1]) = Ready /\ (Tail(todo) # <<>> => Exit(todo[1], todo[2]) = Done)
  <1>1. todo # <<>> /\ Head(todo).what \in {"expr", "arg"}
        /\ (Head(todo).what = "arg" => argNum = 0)
    BY DEF At
  <1>2. Head(todo).what \notin Quiet /\ Head(todo).what # "param"  BY <1>1 DEF Quiet
  <1>3. /\ None(Tail(todo), "arg") /\ None(Tail(todo), "param")
        /\ Head(todo).what = "arg" => (Tail(todo) # <<>> => todo[2].what # "arg")
    BY <1>1, <1>2, NothingBelow
  <1>4. Head(todo) = todo[1]  BY <1>1 DEF ListsOK, Goes
  <1>5. Entry(todo[1]) = Ready /\ (Tail(todo) # <<>> => Exit(todo[1], todo[2]) = Done)
    BY <1>1, <1>3, <1>4 DEF Entry, Exit
  <1>6. QED  BY <1>3, <1>5

\* A list of parameters or arguments begins, and their count with it.
LEMMA ListBegins ==
    ASSUME NEW s, s # <<>>, NEW e, Goes(s, {e}, Class),
           None(Tail(s), "arg"), None(Tail(s), "param"),
           NEW what \in {"arg", "param"}, NEW other \in {"arg", "param"}, other # what,
           NEW head, NEW n \in Nat, NEW rest \in Bare, rest # <<>>, rest[1].what = "write",
           NEW A, NEW B, Moves(head, A, {"open"}), head.what = "write", Goes(rest, Either, B),
           B \subseteq Class, Entry(s[1]) \subseteq A,
           Tail(s) # <<>> => B \subseteq Exit(s[1], s[2]),
           NEW new, new = (<<head>> \o Times(n, Do(what)) \o rest) \o Tail(s)
    PROVE  /\ Goes(new, {e}, Class) /\ Pending(new, what, n - 1)
           /\ \A num : Pending(new, other, num)
  <1> DEFINE front == <<head>> \o Times(n, Do(what))
             below == rest \o Tail(s)
  <1>1. s \in Seq(Item) /\ Tail(s) \in Seq(Item)
    <2>1. s \in Seq(Item)  BY DEF Goes, Tidy
    <2>2. QED  BY <2>1
  <1>2. head \in Item /\ head.what \in Quiet /\ head.what # other
    BY DEF Moves, Tidy, Quiet
  <1>3. rest \in Seq(Item) /\ None(rest, what) /\ None(rest, other)
    BY DEF Bare
  <1>4. Goes(front \o rest, A, B)  BY GoesListed
  <1>5. Goes((front \o rest) \o Tail(s), {e}, Class)
    <2> DEFINE items == front \o rest
    <2>1. Goes(items, A, B)  BY <1>4
    <2> HIDE DEF items
    <2>2. Goes(items \o Tail(s), {e}, Class)  BY <2>1, TakesPlace
    <2>3. QED  BY <2>2 DEF items
  <1>6. None(Tail(s), what) /\ None(Tail(s), other)
    OBVIOUS
  <1>7. below \in Seq(Item) /\ None(below, what) /\ None(below, other)
    BY <1>1, <1>3, <1>6, NoneConcat
  <1> HIDE DEF below
  <1>8. front \in Seq(Item) /\ Pending(front \o below, what, n - 1)
    BY <1>2, <1>7, PendingList
  <1>9. None(front, other)
    <2> DEFINE item == Do(what)
    <2>1. item.what = what /\ item \in Item  BY DoFacts, FlatItems
    <2> HIDE DEF item
    <2>2. /\ Times(n, item) \in Seq(Item) /\ Len(Times(n, item)) = n
          /\ \A i \in 1 .. n : Times(n, item)[i] = item
      BY <2>1 DEF Times
    <2>3. None(Times(n, item), other)  BY <2>1, <2>2 DEF None
    <2>4. <<head>> \in Seq(Item) /\ None(<<head>>, other)  BY <1>2 DEF None
    <2>5. None(<<head>> \o Times(n, item), other)  BY <2>2, <2>3, <2>4, NoneConcat
    <2>6. QED  BY <2>5 DEF item
  <1> HIDE DEF front
  <1>10. front \o below \in Seq(Item) /\ None(front \o below, other)
    BY <1>7, <1>8, <1>9, NoneConcat
  <1>11. \A num : Pending(front \o below, other, num)  BY <1>10, PendingNone
  <1>12. new = front \o below
    <2>1. new = (front \o rest) \o Tail(s)  BY DEF front
    <2>2. \A r, t, u \in Seq(Item) : (r \o t) \o u = r \o (t \o u)  BY ConcatAssociative
    <2>3. (front \o rest) \o Tail(s) = front \o (rest \o Tail(s))
      BY <1>1, <1>3, <1>8, <2>2
    <2>4. QED  BY <2>1, <2>3 DEF below
  <1>13. Goes(new, {e}, Class)  BY <1>5 DEF front
  <1>14. QED  BY <1>8, <1>11, <1>12, <1>13

\* A function: the count of its parameters begins.
LEMMA FuncKeepsLists ==
    ASSUME IInv, ListsOK, compound = {}, VisitFunc
    PROVE  ListsOK'
  <1> DEFINE head == W(<<"t", "w", "(">>)
             begin == W(<<")", "{">>)
             end == W(<<"}">>)
             rest == <<begin, Deeper, Stmts, Shallower, end, Components>>
             items(n) == <<head>> \o Times(n, Param) \o rest
  <1>1. PICK n \in 0 .. MaxArgs : Visit(items(n)) /\ parmNum' = Commas(n)
    BY DEF VisitFunc
  <1>2. n \in Nat /\ Commas(n) = n - 1
    <2>1. MaxArgs \in Nat  BY BoundsAssumption
    <2>2. QED  BY <2>1 DEF Commas
  <1>3. /\ todo # <<>> /\ Head(todo).what = "components" /\ meant' = meant
        /\ Parted(meant) /\ Goes(todo, {EndOf(meant)}, Class)
        /\ Pending(todo, "arg", argNum) /\ Pending(todo, "param", parmNum)
    BY DEF VisitFunc, At, Unwritten, ListsOK
  <1>4. /\ Head(todo) = todo[1]
        /\ None(Tail(todo), "arg") /\ None(Tail(todo), "param")
    <2>1. Head(todo).what \notin Quiet /\ Head(todo).what \notin {"arg", "param"}
      BY <1>3 DEF Quiet
    <2>2. QED  BY <1>3, <2>1, NothingBelow DEF Goes
  <1>5. Moves(head, {"open"}, {"open"}) /\ head.what = "write"
    BY MovesMore DEF W
  <1>6. rest # <<>> /\ rest[1].what = "write" /\ Goes(rest, Either, {"open"}) /\ rest \in Bare
    <2>1. Goes(rest, Either, {"open"})
      <3>1. /\ Moves(begin, Either, {"open"}) /\ Moves(Deeper, {"open"}, {"open"})
            /\ Moves(Stmts, {"open"}, {"open"}) /\ Moves(Shallower, {"open"}, {"open"})
            /\ Moves(end, {"open"}, {"open"}) /\ Moves(Components, {"open"}, {"open"})
        BY MovesOthers, MovesOne, MovesMore
      <3> HIDE DEF begin, end
      <3>2. QED  BY <3>1, GoesSix
    <2>2. rest[1] = begin /\ begin.what = "write"  BY DEF W
    <2>3. rest # <<>>  OBVIOUS
    <2>4. /\ begin \in Calm /\ end \in Calm /\ Deeper \in Calm /\ Stmts \in Calm
          /\ Shallower \in Calm /\ Components \in Calm
      BY CalmWrites, CalmLists
    <2> HIDE DEF begin, end
    <2>5. rest \in Seq(Calm)  BY <2>4, CalmTuples
    <2> HIDE DEF rest
    <2>6. QED  BY <2>1, <2>2, <2>3, <2>5, CalmLists
  <1>7. /\ Entry(todo[1]) \subseteq {"open"} /\ {"open"} \subseteq Class
        /\ {"open"} \subseteq Exit(todo[1], todo[2])
    BY <1>3, <1>4 DEF Entry, Exit, Class
  <1>8. todo' = (<<head>> \o Times(n, Do("param")) \o rest) \o Tail(todo)
    BY <1>1 DEF Visit, Param
  <1> HIDE DEF head, rest
  <1>9. PICK new : new = (<<head>> \o Times(n, Do("param")) \o rest) \o Tail(todo)
    OBVIOUS
  <1>10. /\ Goes(new, {EndOf(meant)}, Class) /\ Pending(new, "param", n - 1)
         /\ \A num : Pending(new, "arg", num)
    BY <1>2, <1>3, <1>4, <1>5, <1>6, <1>7, <1>9, ListBegins
  <1>11. todo' = new /\ meant' = meant /\ parmNum' = n - 1  BY <1>1, <1>2, <1>3, <1>8, <1>9
  <1>12. QED  BY <1>3, <1>10, <1>11 DEF ListsOK

\* A call in an expression, or as the last argument: the count of its arguments begins.
LEMMA CallKeepsLists ==
    ASSUME IInv, ListsOK, compound = {}, VisitCall, At("expr") \/ (At("arg") /\ argNum = 0)
    PROVE  ListsOK'
  <1> DEFINE head == W(<<"w", "(">>)
             end == W(<<")">>)
             rest == <<end>>
             items(n) == <<head>> \o Times(n, Arg) \o rest
  <1>1. PICK n \in 0 .. MaxArgs : Inner(items(n)) /\ argNum' = Commas(n)
    BY DEF VisitCall
  <1>2. n \in Nat /\ Commas(n) = n - 1
    <2>1. MaxArgs \in Nat  BY BoundsAssumption
    <2>2. QED  BY <2>1 DEF Commas
  <1>3. /\ todo # <<>> /\ meant' = meant /\ Visit(items(n))
        /\ Parted(meant) /\ Goes(todo, {EndOf(meant)}, Class)
        /\ Pending(todo, "arg", argNum) /\ Pending(todo, "param", parmNum)
    BY <1>1 DEF Inner, At, Unwritten, ListsOK
  <1>4. /\ None(Tail(todo), "arg") /\ None(Tail(todo), "param")
        /\ Entry(todo[1]) = Ready /\ (Tail(todo) # <<>> => Exit(todo[1], todo[2]) = Done)
    BY ExpressionBelow
  <1>5. Moves(head, Ready, {"open"}) /\ head.what = "write"
    BY MovesMore DEF W
  <1>6. rest # <<>> /\ rest[1].what = "write" /\ Goes(rest, Either, Done) /\ rest \in Bare
    <2>1. Goes(rest, Either, Done)  BY MovesOne, GoesOne
    <2>2. rest[1] = end /\ end.what = "write"  BY DEF W
    <2>3. rest # <<>>  OBVIOUS
    <2>4. end \in Calm  BY CalmWrites DEF Plain
    <2> HIDE DEF end
    <2>5. rest \in Seq(Calm)  BY <2>4, CalmTuples
    <2> HIDE DEF rest
    <2>6. QED  BY <2>1, <2>2, <2>3, <2>5, CalmLists
  <1>7. /\ Entry(todo[1]) \subseteq Ready /\ Done \subseteq Class
        /\ Tail(todo) # <<>> => Done \subseteq Exit(todo[1], todo[2])
    BY <1>4, Ends
  <1>8. todo' = (<<head>> \o Times(n, Do("arg")) \o rest) \o Tail(todo)
    BY <1>3 DEF Visit, Arg
  <1> HIDE DEF head, rest
  <1>9. PICK new : new = (<<head>> \o Times(n, Do("arg")) \o rest) \o Tail(todo)
    OBVIOUS
  <1>10. /\ Goes(new, {EndOf(meant)}, Class) /\ Pending(new, "arg", n - 1)
         /\ \A num : Pending(new, "param", num)
    BY <1>2, <1>3, <1>4, <1>5, <1>6, <1>7, <1>9, ListBegins
  <1>11. todo' = new /\ meant' = meant /\ argNum' = n - 1  BY <1>1, <1>2, <1>3, <1>8, <1>9
  <1>12. QED  BY <1>3, <1>10, <1>11 DEF ListsOK

\* A parameter or an argument that is one word is followed by a comma exactly if
\* another one comes.
LEMMA OneOfList ==
    ASSUME NEW s, s # <<>>, NEW e, Goes(s, {e}, Class),
           NEW what \in {"arg", "param"}, NEW other \in {"arg", "param"}, other # what,
           NEW num \in Int, Pending(s, what, num), NEW count, Pending(s, other, count),
           Head(s).what = what, NEW items \in Seq(Calm),
           \A i \in 1 .. Len(items) : items[i].what \in Quiet,
           IF num # 0 THEN Goes(items, Ready, {"comma"}) ELSE Goes(items, Ready, Done)
    PROVE  /\ Goes(items \o Tail(s), {e}, Class)
           /\ Pending(items \o Tail(s), what, IF num # 0 THEN num - 1 ELSE num)
           /\ \A new : Pending(items \o Tail(s), other, new)
  <1>1. s \in Seq(Item) /\ Head(s) = s[1] /\ items \in Bare
    <2>1. s \in Seq(Item)  BY DEF Goes, Tidy
    <2>2. QED  BY <2>1, CalmLists
  <1>2. items \in Seq(Item) /\ None(items, other)  BY <1>1 DEF Bare
  <1>3. /\ num # 0 => Tail(s) # <<>> /\ s[2].what = what
        /\ num = 0 => (Tail(s) # <<>> => s[2].what # what)
        /\ Pending(items \o Tail(s), what, IF num # 0 THEN num - 1 ELSE num)
    BY <1>1, <1>2, PendingNext
  <1>4. Entry(s[1]) = Ready /\ \A next : Exit(s[1], next) =
            IF next.what = what THEN {"comma"} ELSE Done
    BY <1>1 DEF Entry, Exit
  <1>5. Goes(items \o Tail(s), {e}, Class)
    <2>1. {"comma"} \subseteq Class /\ Done \subseteq Class  BY Ends
    <2>2. CASE num # 0
      <3>1. Exit(s[1], s[2]) = {"comma"}  BY <1>3, <1>4, <2>2
      <3>2. Goes(items, Ready, {"comma"})  BY <2>2
      <3>3. QED  BY <1>4, <2>1, <3>1, <3>2, TakesPlace
    <2>3. CASE num = 0
      <3>1. Tail(s) # <<>> => Exit(s[1], s[2]) = Done  BY <1>3, <1>4, <2>3
      <3>2. Goes(items, Ready, Done)  BY <2>3
      <3>3. QED  BY <1>4, <2>1, <3>1, <3>2, TakesPlace
    <2>4. QED  BY <2>2, <2>3
  <1>6. Head(s).what \notin Quiet \cup {other}  BY DEF Quiet
  <1>7. \A new : Pending(items \o Tail(s), other, new)  BY <1>1, <1>2, <1>6, NonePending
  <1>8. QED  BY <1>3, <1>5, <1>7

\* A parameter.
LEMMA ParamKeepsLists ==
    ASSUME IInv, ListsOK, compound = {}, VisitParam
    PROVE  ListsOK'
  <1> DEFINE items == IF parmNum # 0 THEN <<goodLook, W(<<"t", "w", ",">>)>>
                      ELSE <<goodLook, W(<<"t", "w">>)>>
             left == IF parmNum # 0 THEN parmNum - 1 ELSE parmNum
             new == items \o Tail(todo)
  <1>1. /\ todo # <<>> /\ Head(todo).what = "param" /\ meant' = meant /\ argNum' = argNum
        /\ Parted(meant) /\ Goes(todo, {EndOf(meant)}, Class)
        /\ Pending(todo, "arg", argNum) /\ Pending(todo, "param", parmNum) /\ parmNum \in Int
    BY DEF VisitParam, At, Unwritten, ListsOK, IInv, CountersOK
  <1>2. todo' = new /\ parmNum' = left  BY DEF VisitParam, Visit
  <1>3. IF parmNum # 0 THEN Goes(items, Ready, {"comma"}) ELSE Goes(items, Ready, Done)
    BY ListsGo
  <1>4. items \in Seq(Calm) /\ \A i \in 1 .. Len(items) : items[i].what \in Quiet
    <2>1. ASSUME NEW text \in Plain
          PROVE  /\ <<goodLook, W(text)>> \in Seq(Calm)
                 /\ \A i \in 1 .. Len(<<goodLook, W(text)>>) :
                        <<goodLook, W(text)>>[i].what \in Quiet
      <3> DEFINE a == goodLook
                 b == W(text)
      <3>1. a \in Calm /\ b \in Calm /\ a.what \in Quiet /\ b.what \in Quiet
        BY CalmLists, CalmWrites DEF goodLook, Do, W, Quiet
      <3> HIDE DEF a, b
      <3>2. <<a, b>> \in Seq(Calm) /\ \A i \in 1 .. Len(<<a, b>>) : <<a, b>>[i].what \in Quiet
        BY <3>1
      <3>3. QED  BY <3>2 DEF a, b
    <2>2. <<"t", "w", ",">> \in Plain /\ <<"t", "w">> \in Plain  BY DEF Plain
    <2>3. CASE parmNum # 0  BY <2>1, <2>2, <2>3
    <2>4. CASE parmNum = 0  BY <2>1, <2>2, <2>4
    <2>5. QED  BY <2>3, <2>4
  <1> HIDE DEF items
  <1>5. /\ Goes(new, {EndOf(meant)}, Class) /\ Pending(new, "param", left)
        /\ \A num : Pending(new, "arg", num)
    BY <1>1, <1>3, <1>4, OneOfList
  <1> HIDE DEF new, left
  <1>6. QED  BY <1>1, <1>2, <1>5 DEF ListsOK

\* An argument that is a leaf.
LEMMA LeafArgKeepsLists ==
    ASSUME IInv, ListsOK, compound = {}, VisitLeafArg
    PROVE  ListsOK'
  <1>1. /\ todo # <<>> /\ Head(todo).what = "arg" /\ meant' = meant /\ parmNum' = parmNum
        /\ Parted(meant) /\ Goes(todo, {EndOf(meant)}, Class)
        /\ Pending(todo, "arg", argNum) /\ Pending(todo, "param", parmNum) /\ argNum \in Int
    BY DEF VisitLeafArg, At, Unwritten, ListsOK, IInv, CountersOK
  <1>2. PICK text \in Leaf :
            IF argNum # 0
            THEN Visit(<<W(text), W(<<",">>)>>) /\ argNum' = argNum - 1
            ELSE Visit(<<W(text)>>) /\ UNCHANGED argNum
    BY DEF VisitLeafArg
  <1> DEFINE items == IF argNum # 0 THEN <<W(text), W(<<",">>)>> ELSE <<W(text)>>
             left == IF argNum # 0 THEN argNum - 1 ELSE argNum
             new == items \o Tail(todo)
  <1>3. todo' = new /\ argNum' = left  BY <1>2 DEF Visit
  <1>4. IF argNum # 0 THEN Goes(items, Ready, {"comma"}) ELSE Goes(items, Ready, Done)
    BY ListsGo
  <1>5. items \in Seq(Calm) /\ \A i \in 1 .. Len(items) : items[i].what \in Quiet
    <2> DEFINE a == W(text)
               b == W(<<",">>)
    <2>1. a \in Calm /\ b \in Calm /\ a.what \in Quiet /\ b.what \in Quiet
      BY CalmWrites DEF W, Quiet, Leaf, Plain
    <2>2. items = IF argNum # 0 THEN <<a, b>> ELSE <<a>>  OBVIOUS
    <2> HIDE DEF a, b, items
    <2>3. <<a, b>> \in Seq(Calm) /\ \A i \in 1 .. Len(<<a, b>>) : <<a, b>>[i].what \in Quiet
      BY <2>1
    <2>4. <<a>> \in Seq(Calm) /\ \A i \in 1 .. Len(<<a>>) : <<a>>[i].what \in Quiet
      BY <2>1
    <2>5. QED  BY <2>2, <2>3, <2>4
  <1> HIDE DEF items
  <1>6. /\ Goes(new, {EndOf(meant)}, Class) /\ Pending(new, "arg", left)
        /\ \A num : Pending(new, "param", num)
    BY <1>1, <1>4, <1>5, OneOfList
  <1> HIDE DEF new, left
  <1>7. QED  BY <1>1, <1>3, <1>6 DEF ListsOK

\* What visits a component, a list of statements or a list of initializers.
LEMMA OpenVisit ==
    ASSUME IInv, ListsOK, compound = {}, At("components") \/ At("stmts") \/ At("init"),
           NEW B, B = IF At("init") THEN Either ELSE {"open"},
           NEW items, Goes(items, {"open"}, B), items \in Bare, Visit(items),
           UNCHANGED meant
    PROVE  ListsOK'
  <1>1. todo # <<>> /\ Head(todo).what \in {"components", "stmts", "init"}
        /\ (At("init") <=> Head(todo).what = "init")
    BY DEF At
  <1>2. Head(todo) = todo[1]  BY <1>1 DEF ListsOK, Goes
  <1>3. /\ Entry(todo[1]) \subseteq {"open"} /\ B \subseteq Class
        /\ B \subseteq Exit(todo[1], todo[2])
    BY <1>1, <1>2, Ends DEF Entry, Exit
  <1>4. Head(todo).what \notin Quiet /\ Head(todo).what # "arg" /\ Head(todo).what # "param"
    BY <1>1 DEF Quiet
  <1>5. None(Tail(todo), "arg") /\ None(Tail(todo), "param")  BY <1>1, <1>4, NothingBelow
  <1>6. QED  BY <1>1, <1>3, <1>5, BareVisit

\* What visits an expression.
LEMMA ExprVisit ==
    ASSUME IInv, ListsOK, compound = {}, At("expr") \/ (At("arg") /\ argNum = 0),
           NEW items, Goes(items, Ready, Done), items \in Bare, Visit(items), UNCHANGED meant
    PROVE  ListsOK'
  <1>1. todo # <<>>  BY DEF At
  <1>2. /\ None(Tail(todo), "arg") /\ None(Tail(todo), "param")
        /\ Entry(todo[1]) \subseteq Ready
        /\ (Tail(todo) # <<>> => Done \subseteq Exit(todo[1], todo[2]))
    BY ExpressionBelow
  <1>3. QED  BY <1>1, <1>2, BareVisit, Ends

\* A list of statements, or of components, goes on behind one of them.
LEMMA OneMore ==
    ASSUME NEW items \in UNION {Variable, Return, Jump, ExprStmt, For, While, If},
           NEW more \in {Stmts, Components}
    PROVE  Goes(Append(items, more), {"open"}, {"open"}) /\ Append(items, more) \in Bare
  <1>1. Goes(items, {"open"}, {"open"}) /\ items \in Seq(Calm)
    BY StatementsGo, StatementsAreCalm
  <1>2. Goes(<<more>>, {"open"}, {"open"}) /\ more \in Calm
    BY MovesOthers, GoesOne, CalmLists
  <1>3. Append(items, more) = items \o <<more>> /\ Append(items, more) \in Seq(Calm)
    BY <1>1, <1>2
  <1>4. QED  BY <1>1, <1>2, <1>3, GoesOn, CalmLists

\* Every step keeps the invariant of the lists.
LEMMA NextKeepsLists == IInv /\ ListsOK /\ [Next]_vars => ListsOK'
  <1> SUFFICES ASSUME IInv, ListsOK, [Next]_vars PROVE ListsOK'
    OBVIOUS
  <1>1. compound' # {} => ListsOK'  BY DEF ListsOK
  <1>2. compound # {} => compound' # {}
    BY DEF Next, WriteText, GoodLook, Nest, VisitFunc, VisitParam, VisitGlobal, VisitInit,
           FinishProgram,
           VisitStmt, FinishStmts, VisitLeaf, VisitLeafArg, VisitBinary, VisitUnary,
           VisitIndexedRef, VisitCall, Inner, Same, vars
  <1> SUFFICES ASSUME compound = {}, compound' = {} PROVE ListsOK'
    BY <1>1, <1>2
  <1>0. Goes(<<>>, {"open"}, {"open"}) /\ <<>> \in Bare
    BY GoesNowhere, CalmTuples, CalmLists
  <1>3. CASE WriteText \/ GoodLook \/ Nest
    BY <1>3, WriteKeepsLists, LookKeepsLists, NestKeepsLists
  <1>4. CASE VisitFunc \/ VisitParam \/ VisitLeafArg
    BY <1>4, FuncKeepsLists, ParamKeepsLists, LeafArgKeepsLists
  <1>5. CASE VisitGlobal
    <2>1. PICK items \in Variable : Visit(Append(items, Components))
      BY <1>5 DEF VisitGlobal
    <2>2. At("components") /\ ~At("init") /\ UNCHANGED meant
      BY <1>5 DEF VisitGlobal, Unwritten, At
    <2>3. QED  BY <2>1, <2>2, OneMore, OpenVisit
  <1>6. CASE FinishProgram
    <2>1. At("components") /\ ~At("init") /\ Visit(<<>>) /\ UNCHANGED meant
      BY <1>6 DEF FinishProgram, At
    <2>2. QED  BY <2>1, <1>0, OpenVisit
  <1>7. CASE VisitStmt
    <2>1. PICK items \in UNION {Variable, Return, Jump, ExprStmt, For, While, If} :
                   Visit(Append(items, Stmts))
      BY <1>7 DEF VisitStmt
    <2>2. At("stmts") /\ ~At("init") /\ UNCHANGED meant
      BY <1>7 DEF VisitStmt, Unwritten, At
    <2>3. QED  BY <2>1, <2>2, OneMore, OpenVisit
  <1>8. CASE FinishStmts
    <2>1. At("stmts") /\ ~At("init") /\ Visit(<<>>) /\ UNCHANGED meant
      BY <1>8 DEF FinishStmts, Unwritten, At
    <2>2. QED  BY <2>1, <1>0, OpenVisit
  <1>9. CASE VisitLeaf
    <2>1. PICK text \in Leaf : Visit(<<W(text)>>)  BY <1>9 DEF VisitLeaf
    <2>2. At("expr") /\ UNCHANGED meant  BY <1>9 DEF VisitLeaf, Unwritten
    <2>3. Goes(<<W(text)>>, Ready, Done)  BY ListsGo
    <2>4. <<W(text)>> \in Bare
      <3>1. W(text) \in Calm  BY CalmWrites DEF Leaf, Plain
      <3>2. QED  BY <3>1, CalmTuples, CalmLists
    <2>5. QED  BY <2>1, <2>2, <2>3, <2>4, ExprVisit
  <1>10. VisitBinary \/ VisitUnary \/ VisitIndexedRef \/ VisitCall =>
             At("expr") \/ (At("arg") /\ argNum = 0)
    BY DEF VisitBinary, VisitUnary, VisitIndexedRef, VisitCall, Inner, InnerArg
  <1>11. Expr \in Calm /\ W(<<"o">>) \in Calm /\ W(<<"u">>) \in Calm /\ W(<<"w", "[">>) \in Calm /\ W(<<"]">>) \in Calm
    BY CalmLists, CalmWrites DEF Plain
  <1>12. CASE VisitBinary
    <2>1. /\ Visit(<<Expr, W(<<"o">>), Expr>>) /\ UNCHANGED meant
          /\ At("expr") \/ (At("arg") /\ argNum = 0)
      BY <1>10, <1>12 DEF VisitBinary, Inner, Unwritten
    <2>2. <<Expr, W(<<"o">>), Expr>> \in Bare
      <3> DEFINE a == W(<<"o">>)
      <3>1. a \in Calm  BY <1>11
      <3> HIDE DEF a
      <3>2. <<Expr, a, Expr>> \in Bare  BY <1>11, <3>1, CalmTuples, CalmLists
      <3>3. QED  BY <3>2 DEF a
    <2>3. QED  BY <2>1, <2>2, ListsGo, ExprVisit
  <1>13. CASE VisitUnary
    <2>1. /\ Visit(<<W(<<"u">>), Expr>>) /\ UNCHANGED meant
          /\ At("expr") \/ (At("arg") /\ argNum = 0)
      BY <1>10, <1>13 DEF VisitUnary, Inner, Unwritten
    <2>2. <<W(<<"u">>), Expr>> \in Bare
      <3> DEFINE a == W(<<"u">>)
      <3>1. a \in Calm  BY <1>11
      <3> HIDE DEF a
      <3>2. <<a, Expr>> \in Bare  BY <1>11, <3>1, CalmTuples, CalmLists
      <3>3. QED  BY <3>2 DEF a
    <2>3. QED  BY <2>1, <2>2, ListsGo, ExprVisit
  <1>14. CASE VisitIndexedRef
    <2>1. PICK n \in 1 .. 2 :
                   /\ Visit(<<W(<<"w", "[">>)>> \o Times(n, Expr) \o <<W(<<"]">>)>>)
                   /\ compound' = compound \cup InnerArg \cup (IF n > 1 THEN {"index"} ELSE {})
      BY <1>14 DEF VisitIndexedRef
    <2>2. (At("expr") \/ (At("arg") /\ argNum = 0)) /\ UNCHANGED meant
      BY <1>10, <1>14 DEF VisitIndexedRef, Unwritten
    <2>3. n = 1
      <3>1. ~(n > 1)  BY <2>1
      <3>2. QED  BY <3>1
    <2> DEFINE a == W(<<"w", "[">>)
               b == W(<<"]">>)
    <2>4. a \in Calm /\ b \in Calm /\ Expr \in Calm  BY <1>11
    <2>5. Goes(<<a, Expr, b>>, Ready, Done)  BY ListsGo
    <2> HIDE DEF a, b
    <2>6. <<a>> \o Times(1, Expr) \o <<b>> = <<a, Expr, b>>
      <3> DEFINE u == <<a>> \o Times(1, Expr) \o <<b>>
                 v == <<a, Expr, b>>
                 t == Times(1, Expr)
      <3>1. t \in Seq(Calm) /\ Len(t) = 1 /\ t[1] = Expr  BY <2>4 DEF Times
      <3>2. v \in Seq(Calm) /\ Len(v) = 3 /\ v[1] = a /\ v[2] = Expr /\ v[3] = b  BY <2>4
      <3> HIDE DEF v, t
      <3>3. u \in Seq(Calm) /\ Len(u) = 3 /\ u[1] = a /\ u[2] = Expr /\ u[3] = b
        BY <2>4, <3>1 DEF t
      <3> HIDE DEF u
      <3>4. \A i \in 1 .. 3 : i = 1 \/ i = 2 \/ i = 3  OBVIOUS
      <3>5. u = v  BY <3>2, <3>3, <3>4, SameLists
      <3>6. QED  BY <3>5 DEF u, v
    <2>7. Visit(<<a, Expr, b>>)  BY <2>1, <2>3, <2>6 DEF a, b
    <2>8. <<a, Expr, b>> \in Bare  BY <2>4, CalmTuples, CalmLists
    <2>9. QED  BY <2>2, <2>5, <2>7, <2>8, ExprVisit
  <1>15. CASE VisitCall
    <2>1. At("expr") \/ (At("arg") /\ argNum = 0)  BY <1>10, <1>15
    <2>2. QED  BY <1>15, <2>1, CallKeepsLists
  <1>16. CASE VisitInit
    <2>1. PICK list \in Optional(Initializers), expr \in Optional(Expr) :
                   /\ Visit(list \o expr)
                   /\ compound' = compound \cup (IF <<>> \in {list, expr} THEN {} ELSE {"init"})
      BY <1>16 DEF VisitInit
    <2>2. At("init") /\ UNCHANGED meant  BY <1>16 DEF VisitInit, Unwritten
    <2>3. list = <<>> \/ expr = <<>>
      <3>1. <<>> \in {list, expr}  BY <2>1
      <3>2. QED  BY <3>1
    <2>4. PICK items : items = list \o expr  OBVIOUS
    <2>5. items \in {<<>>, <<Initializers>>, <<Expr>>}
      <3>1. <<>> \o <<>> = <<>>  OBVIOUS
      <3>2. <<Initializers>> \o <<>> = <<Initializers>> /\ <<>> \o <<Expr>> = <<Expr>>
        <4>1. \A item \in Item : <<item>> \o <<>> = <<item>> /\ <<>> \o <<item>> = <<item>>
          OBVIOUS
        <4>2. QED  BY <4>1, CalmLists DEF Calm
      <3>3. QED  BY <2>3, <2>4, <3>1, <3>2 DEF Optional
    <2>6. Goes(items, {"open"}, Either) /\ items \in Bare
      <3>1. Goes(items, {"open"}, Either)  BY <2>5, ListsGo
      <3>2. items \in Seq(Calm)  BY <2>5, CalmLists, CalmTuples
      <3>3. QED  BY <3>1, <3>2, CalmLists
    <2>7. Visit(items)  BY <2>1, <2>4
    <2>8. QED  BY <2>2, <2>6, <2>7, OpenVisit
  <1>17. CASE UNCHANGED vars
    BY <1>17 DEF vars, ListsOK
  <1>18. QED
    BY <1>3, <1>4, <1>5, <1>6, <1>7, <1>8, <1>9, <1>12, <1>13, <1>14, <1>15, <1>16, <1>17
    DEF Next

\* The program has not been visited yet.
LEMMA InitLists == Init => ListsOK
  <1> SUFFICES ASSUME Init PROVE ListsOK
    OBVIOUS
  <1>1. todo = <<Components>> /\ meant = <<>>  BY DEF Init
  <1>2. Goes(<<Components>>, {"open"}, {"open"})  BY MovesOthers, GoesOne
  <1>3. EndOf(meant) = "open" /\ {"open"} \subseteq Class  BY <1>1 DEF EndOf, Class
  <1>4. Goes(todo, {EndOf(meant)}, Class)  BY <1>1, <1>2, <1>3, GoesWeaker
  <1>5. Parted(meant)  BY <1>1 DEF Parted
  <1>6. todo \in Bare  BY <1>1, CalmTuples, CalmLists
  <1>7. Pending(todo, "arg", argNum) /\ Pending(todo, "param", parmNum)
    BY <1>6, PendingNone DEF Bare
  <1>8. QED  BY <1>4, <1>5, <1>7 DEF ListsOK

\* While no argument in front of the last, no index and no initializer is compound, no
\* separator of a list is missing and no comma is one too many, whatever the two counters
\* of the visitor went through before.
THEOREM ListsAreRight == Spec => []SimpleListsAreSeparated
  <1>1. ListsOK => SimpleListsAreSeparated
    BY DEF ListsOK, SimpleListsAreSeparated, Separated, Parted
  <1>2. QED  BY <1>1, Invariant, InitLists, NextKeepsLists, PTL DEF Spec
=============================================================================
