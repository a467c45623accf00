---------------------------- MODULE TextsProofs -----------------------------
(***************************************************************************)
(* Proofs about module Texts, for texts of any length: the formats of a    *)
(* logger are parsed by their documentation, and the cookie of a session   *)
(* is found among any others, and a log file has its directories.  What    *)
(* the program and the properties compute by recursion is unfolded here,   *)
(* step by step or from behind (module Induction), and compared place by   *)
(* place.                                                                  *)
(***************************************************************************)
EXTENDS Texts, Induction, SequenceTheorems

(* How a flat sequence grows, part by part.                                *)
Grows(g, s) == /\ g[0] = <<>>
               /\ \A i \in 1 .. Len(s) : g[i] = g[i - 1] \o s[i]

(* There is a sequence of beginnings that grows to the flat one.           *)
LEMMA GrowsExists ==
  ASSUME NEW S, NEW s \in Seq(Seq(S))
  PROVE  \E g \in [0 .. Len(s) -> Seq(S)] : Grows(g, s)
<1> DEFINE n == Len(s)
           V == Seq(S)
           first == <<>>
           step == [i \in 1 .. n |-> [t \in V |-> t \o s[i]]]
<1>1. n \in Nat
  OBVIOUS
<1>2. first \in V
  OBVIOUS
<1>3. \A i \in 1 .. n : \A t \in V : t \o s[i] \in V
  OBVIOUS
<1>4. step \in [1 .. n -> [V -> V]]
  BY <1>3
<1>5. \A i \in 1 .. n : \A t \in V : step[i][t] = t \o s[i]
  OBVIOUS
<1>6. \A i \in 1 .. n : i - 1 \in 0 .. n
  OBVIOUS
<1> HIDE DEF n, V, first, step
<1>7. \E g \in [0 .. n -> V] : Follows(g, n, first, step)
  <2>1. n \in Nat
    BY <1>1
  <2>2. first \in V
    BY <1>2
  <2>3. step \in Steps(n, V)
    BY <1>4 DEF Steps
  <2> QED
    BY <2>1, <2>2, <2>3, StepwiseExists
<1>7a. PICK g \in [0 .. n -> V] : g[0] = first /\ \A i \in 1 .. n : g[i] = step[i][g[i - 1]]
  BY <1>7 DEF Follows
<1>8. \A i \in 1 .. n : g[i] = g[i - 1] \o s[i]
  BY <1>5, <1>6, <1>7a
<1> QED
  BY <1>7a, <1>8 DEF Grows, n, V, first

(* The flat sequence is the last of its beginnings.                        *)
LEMMA Flattened ==
  ASSUME NEW S, NEW s \in Seq(Seq(S)), NEW g \in [0 .. Len(s) -> Seq(S)], Grows(g, s)
  PROVE  FlattenSeq(s) = g[Len(s)]
<1> DEFINE n == Len(s)
           Is(f) == f = [i \in 1 .. Len(s) |-> IF i = 1 THEN s[i] ELSE f[i - 1] \o s[i]]
           flatten[i \in 1 .. Len(s)] ==
             IF i = 1 THEN s[i] ELSE flatten[i - 1] \o s[i]
           h == [i \in 1 .. n |-> g[i]]
<1>1. n \in Nat
  OBVIOUS
<1>2. \A i \in 1 .. n : s[i] \in Seq(S)
  OBVIOUS
<1>3. \A i \in 1 .. n : g[i] = g[i - 1] \o s[i]
  BY DEF Grows
<1>4. FlattenSeq(s) = IF n = 0 THEN s ELSE flatten[n]
  BY DEF FlattenSeq
<1>5. ASSUME NEW i \in 1 .. n PROVE h[i] = IF i = 1 THEN s[i] ELSE h[i - 1] \o s[i]
  <2>1. CASE i = 1
    <3>1. <<>> \o s[1] = s[1] /\ g[0] = <<>>
      BY <1>2, <2>1 DEF Grows
    <3>2. 1 \in 1 .. n /\ 1 - 1 = 0
      BY <2>1
    <3>3. g[1] = g[0] \o s[1]
      BY <1>3, <3>2
    <3>4. g[1] = s[1]
      BY <3>1, <3>3
    <3> QED
      BY <3>2, <3>4, <2>1
  <2>2. CASE i # 1
    <3>1. i - 1 \in 1 .. n
      BY <1>1, <2>2
    <3> HIDE DEF n
    <3>2. h[i - 1] = g[i - 1] /\ h[i] = g[i]
      BY <3>1
    <3> HIDE DEF h
    <3> QED
      BY <1>3, <2>2, <3>2
  <2> QED
    BY <2>1, <2>2
<1>6. Is(h)
  BY <1>5
<1>7. Is(flatten)
  <2>1. \E f : Is(f)
    BY <1>6
  <2> HIDE DEF h
  <2> QED
    BY <2>1
<1>8. ASSUME NEW f, Is(f), n > 0
      PROVE  f[1] = s[1] /\ \A i \in 1 .. n - 1 : f[i + 1] = f[i] \o s[i + 1]
  <2>1. \A i \in 1 .. n : f[i] = IF i = 1 THEN s[i] ELSE f[i - 1] \o s[i]
    BY <1>8
  <2>2. \A i \in 1 .. n - 1 : i + 1 \in 1 .. n /\ i + 1 # 1 /\ (i + 1) - 1 = i
    BY <1>1
  <2>3. 1 \in 1 .. n
    BY <1>1, <1>8
  <2> HIDE DEF n
  <2> QED
    BY <2>1, <2>2, <2>3
<1>9. ASSUME n > 0 PROVE flatten[n] = h[n]
  <2> DEFINE F == [i \in 0 .. n - 1 |-> flatten[i + 1]]
             G == [i \in 0 .. n - 1 |-> h[i + 1]]
             m == n - 1
  <2>1. \A i \in 1 .. m : i - 1 \in 0 .. m /\ i \in 0 .. m /\ (i - 1) + 1 = i
    BY <1>1
  <2>2. m \in Nat /\ m + 1 = n /\ m \in 0 .. m /\ 0 \in 0 .. m /\ 0 + 1 = 1
    BY <1>1, <1>9
  <2> HIDE DEF h, flatten, n
  <2>3. flatten[1] = h[1]
    BY <1>6, <1>7, <1>8, <1>9
  <2>4. \A i \in 1 .. m : /\ flatten[i + 1] = flatten[i] \o s[i + 1]
                          /\ h[i + 1] = h[i] \o s[i + 1]
    BY <1>6, <1>7, <1>8, <1>9
  <2>5. \A i \in 0 .. m : F[i] = flatten[i + 1] /\ G[i] = h[i + 1]
    OBVIOUS
  <2> HIDE DEF F, G, m
  <2>6. F[0] = G[0]
    BY <2>2, <2>3, <2>5
  <2>7. ASSUME NEW i \in 1 .. m, F[i - 1] = G[i - 1] PROVE F[i] = G[i]
    <3>1. flatten[i] = h[i]
      BY <2>1, <2>5, <2>7
    <3>2. flatten[i + 1] = h[i + 1]
      BY <2>4, <3>1
    <3> QED
      BY <2>1, <2>5, <3>2
  <2>8. \A i \in 0 .. m : F[i] = G[i]
    <3>1. m \in Nat
      BY <2>2
    <3>2. GoTogether(m, F, G)
      BY <2>6, <2>7 DEF GoTogether
    <3> QED
      BY <3>1, <3>2, StepwiseEqual
  <2> QED
    BY <2>2, <2>5, <2>8
<1>10. CASE n = 0
  <2>1. s = <<>> /\ g[0] = <<>>
    BY <1>10 DEF Grows
  <2> QED
    BY <2>1, <1>4, <1>10
<1>11. CASE n # 0
  <2>1. n > 0 /\ n \in 1 .. n
    BY <1>1, <1>11
  <2>2. h[n] = g[n]
    BY <2>1
  <2> HIDE DEF n, h, flatten
  <2>3. FlattenSeq(s) = g[n]
    BY <1>4, <1>9, <1>11, <2>1, <2>2
  <2> QED
    BY <2>3 DEF n
<1> QED
  BY <1>10, <1>11

(* The flat sequence has elements of the parts only.                       *)
LEMMA FlattenType ==
  ASSUME NEW S, NEW s \in Seq(Seq(S))
  PROVE  FlattenSeq(s) \in Seq(S)
<1>1. PICK g \in [0 .. Len(s) -> Seq(S)] : Grows(g, s)
  BY GrowsExists
<1>2. FlattenSeq(s) = g[Len(s)]
  BY <1>1, Flattened
<1> QED
  BY <1>2

(* What a flat sequence begins with.                                       *)
LEMMA FlattenFirst ==
  ASSUME NEW S, NEW x \in Seq(S), NEW s \in Seq(Seq(S))
  PROVE  FlattenSeq(<<x>> \o s) = x \o FlattenSeq(s)
<1> DEFINE n == Len(s)
           all == <<x>> \o s
<1>1. n \in Nat
  OBVIOUS
<1>2. all \in Seq(Seq(S))
  OBVIOUS
<1>3. Len(all) = n + 1 /\ all[1] = x /\ \A i \in 1 .. n : all[i + 1] = s[i]
  OBVIOUS
<1>4. \A i \in 1 .. n : s[i] \in Seq(S) /\ i - 1 \in 0 .. n
  OBVIOUS
<1> HIDE DEF all
<1>5. PICK g \in [0 .. n -> Seq(S)] : Grows(g, s)
  BY GrowsExists
<1>6. FlattenSeq(s) = g[n]
  BY <1>5, Flattened
<1>7. PICK h \in [0 .. Len(all) -> Seq(S)] : Grows(h, all)
  BY <1>2, GrowsExists
<1>8. FlattenSeq(all) = h[n + 1]
  BY <1>2, <1>3, <1>7, Flattened
<1>9. g[0] = <<>> /\ \A i \in 1 .. n : g[i] = g[i - 1] \o s[i] /\ g[i - 1] \in Seq(S)
  BY <1>4, <1>5 DEF Grows
<1>10. h[0] = <<>> /\ h[1] = h[0] \o x /\ \A i \in 1 .. n : h[i + 1] = h[i] \o s[i]
  <2>1. h[0] = <<>> /\ \A i \in 1 .. n + 1 : h[i] = h[i - 1] \o all[i]
    BY <1>3, <1>7 DEF Grows
  <2>2. 1 \in 1 .. n + 1 /\ 1 - 1 = 0
    BY <1>1
  <2>3. \A i \in 1 .. n : i + 1 \in 1 .. n + 1 /\ (i + 1) - 1 = i
    BY <1>1
  <2> HIDE DEF n
  <2> QED
    BY <1>3, <2>1, <2>2, <2>3
<1> DEFINE F == [i \in 0 .. n |-> h[i + 1]]
           G == [i \in 0 .. n |-> x \o g[i]]
<1>11. 0 \in 0 .. n /\ 0 + 1 = 1 /\ n \in 0 .. n
  BY <1>1
<1>12. \A i \in 1 .. n : i - 1 \in 0 .. n /\ i \in 0 .. n /\ (i - 1) + 1 = i
  BY <1>1
<1>13. <<>> \o x = x /\ x \o <<>> = x
  OBVIOUS
<1>14. ASSUME NEW i \in 1 .. n
       PROVE  (x \o g[i - 1]) \o s[i] = x \o (g[i - 1] \o s[i])
  <2>1. s[i] \in Seq(S) /\ g[i - 1] \in Seq(S)
    BY <1>4, <1>9
  <2> QED
    <3> DEFINE a == g[i - 1]
               b == s[i]
    <3>1. a \in Seq(S) /\ b \in Seq(S)
      BY <2>1
    <3> HIDE DEF a, b
    <3>2. (x \o a) \o b = x \o (a \o b)
      BY <3>1, ConcatAssociative
    <3> QED
      BY <3>2 DEF a, b
<1> HIDE DEF n
<1>15. \A i \in 0 .. n : F[i] = h[i + 1] /\ G[i] = x \o g[i]
  OBVIOUS
<1> HIDE DEF F, G
<1>16. F[0] = G[0]
  BY <1>9, <1>10, <1>11, <1>13, <1>15
<1>17. ASSUME NEW i \in 1 .. n, F[i - 1] = G[i - 1] PROVE F[i] = G[i]
  <2>1. h[i] = x \o g[i - 1]
    BY <1>12, <1>15, <1>17
  <2>2. h[i + 1] = (x \o g[i - 1]) \o s[i]
    BY <1>10, <2>1
  <2>3. h[i + 1] = x \o g[i]
    BY <1>9, <1>14, <2>2
  <2> QED
    BY <1>12, <1>15, <2>3
<1>18. \A i \in 0 .. n : F[i] = G[i]
  <2>1. n \in Nat
    BY <1>1
  <2>2. GoTogether(n, F, G)
    BY <1>16, <1>17 DEF GoTogether
  <2> QED
    BY <2>1, <2>2, StepwiseEqual
<1> QED
  BY <1>6, <1>8, <1>11, <1>15, <1>18 DEF all

(* The flat end of a sequence begins with the part it starts at.           *)
LEMMA FlattenRest ==
  ASSUME NEW S, NEW s \in Seq(Seq(S)), NEW i \in 1 .. Len(s)
  PROVE  /\ FlattenSeq(SubSeq(s, i, Len(s)))
              = s[i] \o FlattenSeq(SubSeq(s, i + 1, Len(s)))
         /\ FlattenSeq(SubSeq(s, i + 1, Len(s))) \in Seq(S)
<1> DEFINE n == Len(s)
           r == SubSeq(s, i + 1, n)
           x == s[i]
<1>1. n \in Nat /\ i \in 1 .. n
  OBVIOUS
<1>2. x \in Seq(S)
  OBVIOUS
<1>3. SubSeq(s, i, n) = <<x>> \o r
  <2>1. n \in i .. Len(s)
    BY <1>1
  <2> QED
    BY <2>1, SubSeqRecursiveFirst
<1>4. r \in Seq(Seq(S))
  <2>1. i + 1 \in Int /\ n \in Int /\ \A j \in i + 1 .. n : s[j] \in Seq(S)
    BY <1>1
  <2> QED
    BY <2>1, SubSeqProperties
<1> HIDE DEF r, x
<1>5. FlattenSeq(<<x>> \o r) = x \o FlattenSeq(r) /\ FlattenSeq(r) \in Seq(S)
  BY <1>2, <1>4, FlattenFirst, FlattenType
<1> QED
  BY <1>3, <1>5 DEF n, r, x

(* Behind the last part nothing is left.                                   *)
LEMMA FlattenEnd ==
  ASSUME NEW s, NEW n \in Nat PROVE FlattenSeq(SubSeq(s, n + 1, n)) = <<>>
<1>1. SubSeq(s, n + 1, n) = <<>>
  BY SubSeqEmpty
<1>2. FlattenSeq(<<>>) = <<>>
  BY DEF FlattenSeq
<1> QED
  BY <1>1, <1>2

-----------------------------------------------------------------------------
(* Characters and texts.  (No prover knows a literal for a string.)        *)
Char == STRING \cup {"%", " ", "\t", "\n", ";", "=", "/", "\\", "."}
Text == Seq(Char)

(* The marks of a format: each % but those that are marked themselves.     *)
LEMMA MarksEquation ==
  ASSUME NEW format \in Text
  PROVE  /\ Marks(format) \subseteq 1 .. Len(format)
         /\ \A i \in 1 .. Len(format) :
              i \in Marks(format) <=> format[i] = "%" /\ i - 1 \notin Marks(format)
<1> DEFINE n == Len(format)
           Is(f) == f = [i \in 0 .. Len(format) |->
                          i > 0 /\ format[i] = "%" /\ ~f[i - 1]]
           Mark[i \in 0 .. Len(format)] ==
             i > 0 /\ format[i] = "%" /\ ~Mark[i - 1]
           V == BOOLEAN
           step == [i \in 1 .. n |-> [b \in V |-> format[i] = "%" /\ ~b]]
           first == FALSE
<1>1. n \in Nat
  OBVIOUS
<1>2. step \in Steps(n, V)
  BY DEF Steps
<1>3. first \in V
  OBVIOUS
<1>4. \A i \in 1 .. n : \A b \in V : step[i][b] = (format[i] = "%" /\ ~b)
  OBVIOUS
<1>5. \E f \in [0 .. n -> V] : Follows(f, n, first, step)
  <2>1. n \in Nat
    BY <1>1
  <2> HIDE DEF n, V, step, first
  <2> QED
    BY <1>2, <1>3, <2>1, StepwiseExists
<1>6. PICK f \in [0 .. n -> V] : Follows(f, n, first, step)
  BY <1>5
<1>7. ASSUME NEW i \in 0 .. n
      PROVE  f[i] = (i > 0 /\ format[i] = "%" /\ ~f[i - 1])
  <2>1. CASE i = 0
    BY <1>6, <2>1 DEF Follows
  <2>2. CASE i # 0
    <3>1. i \in 1 .. n /\ i - 1 \in 0 .. n /\ i > 0
      BY <1>1, <2>2
    <3>2. f[i] = step[i][f[i - 1]]
      <4> HIDE DEF n, V, step, first
      <4> QED
        BY <1>6, <3>1 DEF Follows
    <3>3. f[i - 1] \in V
      BY <3>1
    <3>4. f[i] = (format[i] = "%" /\ ~f[i - 1])
      <4> HIDE DEF step
      <4> QED
        BY <1>4, <3>1, <3>2, <3>3
    <3> QED
      BY <3>1, <3>4
  <2> QED
    BY <2>1, <2>2
<1>8. Is(f)
  BY <1>7
<1>9. Is(Mark)
  BY <1>8
<1>10. Marks(format) = {i \in DOMAIN format : Mark[i]}
  BY DEF Marks
<1>11. \A i \in 0 .. n : Mark[i] = (i > 0 /\ format[i] = "%" /\ ~Mark[i - 1])
  <2> HIDE DEF Mark
  <2> QED
    BY <1>9
<1> HIDE DEF Mark
<1>12. ASSUME NEW i \in 0 .. n PROVE i \in Marks(format) <=> Mark[i]
  <2>1. CASE i = 0
    <3>1. 0 \in 0 .. n /\ ~(0 > 0) /\ 0 \notin DOMAIN format
      BY <1>1
    <3>2. Mark[0] = (0 > 0 /\ format[0] = "%" /\ ~Mark[0 - 1])
      BY <1>11, <3>1
    <3>3. ~Mark[0]
      BY <3>1, <3>2, Zenon
    <3> QED
      BY <2>1, <3>1, <3>3, <1>10
  <2>2. CASE i # 0
    <3>1. i \in DOMAIN format
      BY <2>2
    <3> QED
      BY <3>1, <1>10
  <2> QED
    BY <2>1, <2>2
<1>13. ASSUME NEW i \in 1 .. n
       PROVE  i \in Marks(format) <=> format[i] = "%" /\ i - 1 \notin Marks(format)
  <2>1. i \in 0 .. n /\ i - 1 \in 0 .. n /\ i > 0
    BY <1>1
  <2> HIDE DEF n
  <2> QED
    BY <1>11, <1>12, <2>1
<1> QED
  BY <1>10, <1>13

(* The place behind a mark is none.                                        *)
LEMMA BehindMark ==
  ASSUME NEW format \in Text, NEW i \in Marks(format)
  PROVE  i + 1 \notin Marks(format)
<1>1. i \in 1 .. Len(format) /\ Len(format) \in Nat
  BY MarksEquation
<1>2. CASE i + 1 \in 1 .. Len(format)
  <2>1. (i + 1) - 1 = i
    BY <1>1
  <2> QED
    BY <1>2, <2>1, MarksEquation
<1>3. CASE i + 1 \notin 1 .. Len(format)
  BY <1>3, MarksEquation
<1> QED
  BY <1>2, <1>3

-----------------------------------------------------------------------------
(* The items of a parsed format.                                           *)
Items == [type : {"other"}, text : Text] \cup [type : Fields \cup DOMAIN Spaces]

Parsed == [ok : BOOLEAN, items : Seq(Items)]

(* The sequences of one element, ...                                       *)
LEMMA OneElement == ASSUME NEW S, NEW c \in S PROVE <<c>> \in Seq(S)
  OBVIOUS

(* ... the texts of one place among them.                                  *)
LEMMA CharTexts == \A c \in Char : <<c>> \in Text
  BY OneElement DEF Text

(* The sequences that the assumptions speak of are texts, ...              *)
LEMMA StringTexts == Seq(STRING) \subseteq Text
  BY SeqMonotonic DEF Text, Char

(* ... so the fields of a message have texts.                              *)
LEMMA InfoTypes == \A f \in Fields : Info[f] \in Text
  BY InfoAssumption, StringTexts

(* Items and what they write are of their types.                           *)
LEMMA ItemTypes ==
  /\ \A text \in Text : Other(text) \in Items /\ getItem(Other(text)) = text
  /\ \A letter \in Letters : Item(letter) \in Items
  /\ \A item \in Items : getItem(item) \in Text
<1>1. ASSUME NEW text \in Text
      PROVE  Other(text) \in Items /\ getItem(Other(text)) = text
  BY DEF Other, Items, getItem
<1>2. ASSUME NEW letter \in Letters PROVE Item(letter) \in Items
  <2>1. CASE letter = "%"
    <3>1. <<"%">> \in Text
      BY CharTexts DEF Char
    <3> QED
      BY <1>1, <2>1, <3>1 DEF Item
  <2>2. CASE letter # "%"
    BY <2>2 DEF Item, Items, Letters
  <2> QED
    BY <2>1, <2>2
<1>3. ASSUME NEW item \in Items PROVE getItem(item) \in Text
  <2>1. CASE item \in [type : {"other"}, text : Text]
    BY <2>1 DEF getItem
  <2>2. CASE item \in [type : Fields \cup DOMAIN Spaces]
    <3>1. item.type \in Fields \cup DOMAIN Spaces /\ item.type # "other"
      BY <2>2 DEF Fields, Spaces
    <3>2. CASE item.type \in Fields
      BY <3>1, <3>2, InfoTypes DEF getItem
    <3>3. CASE item.type \notin Fields
      <4>1. getItem(item) = Spaces[item.type]
        BY <3>1, <3>3 DEF getItem
      <4>2. <<" ">> \in Text /\ <<"\t">> \in Text /\ <<"\n">> \in Text
        BY CharTexts DEF Char
      <4>3. item.type \in {"S", "T", "N"}
        BY <3>1, <3>3 DEF Spaces
      <4>4. Spaces.S = <<" ">> /\ Spaces.T = <<"\t">> /\ Spaces.N = <<"\n">>
        BY DEF Spaces
      <4>5. CASE item.type = "S"
        BY <4>1, <4>2, <4>4, <4>5
      <4>6. CASE item.type = "T"
        BY <4>1, <4>2, <4>4, <4>6
      <4>7. CASE item.type = "N"
        BY <4>1, <4>2, <4>4, <4>7
      <4> QED
        BY <4>3, <4>5, <4>6, <4>7
    <3> QED
      BY <3>2, <3>3
  <2> QED
    BY <2>1, <2>2 DEF Items
<1> QED
  BY <1>1, <1>2, <1>3

(* What the items write, one after the other.                              *)
LEMMA RunFirst ==
  ASSUME NEW item \in Items, NEW items \in Seq(Items)
  PROVE  run(<<item>> \o items) = getItem(item) \o run(items)
<1> DEFINE all == <<item>> \o items
           texts(s) == [i \in DOMAIN s |-> getItem(s[i])]
<1>1. /\ \A i \in DOMAIN items : items[i] \in Items
      /\ all \in Seq(Items) /\ Len(all) = Len(items) + 1
      /\ all[1] = item /\ \A i \in 1 .. Len(items) : all[i + 1] = items[i]
      /\ \A i \in 1 .. Len(all) : i = 1 \/ (i - 1 \in 1 .. Len(items) /\ all[i] = items[i - 1])
  OBVIOUS
<1>2. getItem(item) \in Text /\ texts(items) \in Seq(Text)
  <2>1. \A i \in 1 .. Len(items) : getItem(items[i]) \in Text
    BY <1>1, ItemTypes
  <2> HIDE DEF Text
  <2> QED
    BY <2>1, ItemTypes
<1>3. texts(all) = <<getItem(item)>> \o texts(items)
  <2> DEFINE r == <<getItem(item)>> \o texts(items)
  <2>1. Len(texts(items)) = Len(items)
    OBVIOUS
  <2> HIDE DEF Text
  <2>2. /\ r \in Seq(Text) /\ Len(r) = Len(items) + 1
        /\ r[1] = getItem(item)
        /\ \A i \in 1 .. Len(items) : r[i + 1] = getItem(items[i])
    BY <1>2, <2>1
  <2>3. r = [i \in 1 .. Len(items) + 1 |-> r[i]]
    BY <2>2
  <2>4. texts(all) = [i \in 1 .. Len(items) + 1 |-> getItem(all[i])]
    BY <1>1
  <2>5. ASSUME NEW i \in 1 .. Len(items) + 1 PROVE r[i] = getItem(all[i])
    <3>1. CASE i = 1
      BY <3>1, <1>1, <2>2
    <3>2. CASE i # 1
      <4>1. i - 1 \in 1 .. Len(items) /\ (i - 1) + 1 = i
        BY <3>2
      <4> HIDE DEF r, all
      <4> QED
        BY <4>1, <1>1, <2>2
    <3> QED
      BY <3>1, <3>2
  <2> HIDE DEF r, all
  <2> QED
    BY <2>3, <2>4, <2>5 DEF r
<1>4. FlattenSeq(<<getItem(item)>> \o texts(items))
        = getItem(item) \o FlattenSeq(texts(items))
  <2> HIDE DEF texts
  <2> QED
    BY <1>2, FlattenFirst DEF Text
<1> QED
  BY <1>3, <1>4 DEF run

(* Nothing is run for the empty format.                                    *)
LEMMA RunEmpty == run(<<>>) = <<>>
  BY DEF run, FlattenSeq

-----------------------------------------------------------------------------
(* What a format writes by its rules, from some place on.                  *)
Place(format, i) ==
  IF i \in Marks(format) THEN <<>>
  ELSE IF i - 1 \in Marks(format) THEN getItem(Item(format[i]))
  ELSE <<format[i]>>

Places(format) == [i \in DOMAIN format |-> Place(format, i)]

LineFrom(format, i) == FlattenSeq(SubSeq(Places(format), i, Len(format)))

(* Every place of a well-formed format stands for a text.                  *)
LEMMA PlacesTypes ==
  ASSUME NEW format \in Text, WellFormed(format)
  PROVE  /\ Places(format) \in Seq(Text)
         /\ Len(Places(format)) = Len(format)
         /\ \A i \in 1 .. Len(format) : Places(format)[i] = Place(format, i)
<1>1. ASSUME NEW i \in 1 .. Len(format) PROVE Place(format, i) \in Text
  <2>1. CASE i \in Marks(format)
    <3>1. <<>> \in Text
      BY DEF Text
    <3> QED
      BY <2>1, <3>1 DEF Place
  <2>2. CASE i \notin Marks(format) /\ i - 1 \in Marks(format)
    <3>1. (i - 1) + 1 = i
      OBVIOUS
    <3>2. format[i] \in Letters
      BY <2>2, <3>1 DEF WellFormed
    <3> QED
      BY <2>2, <3>2, ItemTypes DEF Place
  <2>3. CASE i \notin Marks(format) /\ i - 1 \notin Marks(format)
    <3>1. format[i] \in Char
      BY DEF Text
    <3> QED
      BY <2>3, <3>1, CharTexts DEF Place
  <2> QED
    BY <2>1, <2>2, <2>3
<1>2. DOMAIN format = 1 .. Len(format) /\ Len(format) \in Nat
  BY DEF Text
<1>3. Places(format) = [i \in 1 .. Len(format) |-> Place(format, i)]
  BY <1>2 DEF Places
<1> DEFINE n == Len(format)
<1> HIDE DEF n
<1>4. Places(format) \in [1 .. n -> Text]
  BY <1>1, <1>3 DEF n
<1>5. n \in Nat
  BY <1>2 DEF n
<1>6. Places(format) \in Seq(Text) /\ Len(Places(format)) = n
  <2> DEFINE p == Places(format)
             T == Text
  <2>1. p \in [1 .. n -> T]
    BY <1>4
  <2> HIDE DEF p, T
  <2>2. p \in Seq(T) /\ Len(p) = n
    BY <1>5, <2>1
  <2> QED
    BY <2>2 DEF p, T
<1> QED
  BY <1>3, <1>6 DEF n

(* The documented line, from behind: the whole of it, ...                  *)
LEMMA LineFromStart ==
  ASSUME NEW format \in Text, WellFormed(format)
  PROVE  LineFrom(format, 1) = Line(format)
<1>1. SubSeq(Places(format), 1, Len(format)) = Places(format)
  BY PlacesTypes, SubSeqFull
<1>2. Line(format) = FlattenSeq(Places(format))
  BY DEF Line, Places, Place
<1> QED
  BY <1>1, <1>2 DEF LineFrom

(* ... its end, ...                                                        *)
LEMMA LineFromEnd ==
  ASSUME NEW format \in Text
  PROVE  LineFrom(format, Len(format) + 1) = <<>>
<1>1. Len(format) \in Nat
  BY DEF Text
<1> QED
  BY <1>1, FlattenEnd DEF LineFrom

(* ... and what a place adds to the line behind it.                        *)
LEMMA LineFromStep ==
  ASSUME NEW format \in Text, WellFormed(format), NEW i \in 1 .. Len(format)
  PROVE  /\ LineFrom(format, i) = Place(format, i) \o LineFrom(format, i + 1)
         /\ Place(format, i) \in Text
         /\ LineFrom(format, i + 1) \in Text
<1> DEFINE p == Places(format)
<1>1. p \in Seq(Text) /\ Len(p) = Len(format) /\ p[i] = Place(format, i)
  BY PlacesTypes
<1>2. p[i] \in Text
  BY <1>1
<1> HIDE DEF p
<1>3. /\ FlattenSeq(SubSeq(p, i, Len(p))) = p[i] \o FlattenSeq(SubSeq(p, i + 1, Len(p)))
      /\ FlattenSeq(SubSeq(p, i + 1, Len(p))) \in Text
  BY <1>1, FlattenRest DEF Text
<1> QED
  BY <1>1, <1>2, <1>3 DEF LineFrom, p

(* Places with neither mark nor letter stand for themselves.               *)
LEMMA LineOfText ==
  ASSUME NEW format \in Text, WellFormed(format),
         NEW i \in 1 .. Len(format), NEW e \in i .. Len(format),
         \A k \in i .. e : format[k] # "%", i - 1 \notin Marks(format)
  PROVE  LineFrom(format, i) = SubSeq(format, i, e) \o LineFrom(format, e + 1)
<1> DEFINE n == Len(format)
           From(j) == SubSeq(format, j, e) \o LineFrom(format, e + 1)
           T == {j \in 1 .. e + 1 : j >= i => LineFrom(format, j) = From(j)}
<1>1. n \in Nat /\ e \in Nat /\ i \in Nat /\ i <= e /\ e <= n /\ e + 1 \in Nat
  BY DEF Text
<1>2. LineFrom(format, e + 1) \in Text
  <2>1. e \in 1 .. Len(format)
    BY <1>1
  <2> QED
    BY <2>1, LineFromStep
<1>3. e + 1 \in T
  <2>1. SubSeq(format, e + 1, e) = <<>>
    BY <1>1, SubSeqEmpty
  <2>2. <<>> \o LineFrom(format, e + 1) = LineFrom(format, e + 1)
    BY <1>2 DEF Text
  <2>3. LineFrom(format, e + 1) = From(e + 1)
    BY <2>1, <2>2
  <2>4. e + 1 \in 1 .. e + 1
    BY <1>1
  <2> HIDE DEF From
  <2> QED
    BY <2>3, <2>4
<1>4. ASSUME NEW j \in 1 .. e, j >= i, LineFrom(format, j + 1) = From(j + 1)
      PROVE  LineFrom(format, j) = From(j)
  <2>1. j \in i .. e /\ j \in 1 .. n /\ (j = i \/ j - 1 \in i .. e)
    BY <1>1, <1>4
  <2>2. j \notin Marks(format)
    BY <2>1, MarksEquation
  <2>3. j - 1 \notin Marks(format)
    <3>1. CASE j = i
      BY <3>1
    <3>2. CASE j - 1 \in i .. e
      <4>1. j - 1 \in 1 .. n
        BY <1>1, <3>2
      <4> QED
        BY <3>2, <4>1, MarksEquation
    <3> QED
      BY <2>1, <3>1, <3>2
  <2>4. Place(format, j) = <<format[j]>>
    BY <2>2, <2>3 DEF Place
  <2>5. LineFrom(format, j) = <<format[j]>> \o From(j + 1)
    BY <1>4, <2>1, <2>4, LineFromStep
  <2>6. SubSeq(format, j, e) = <<format[j]>> \o SubSeq(format, j + 1, e)
    <3>1. j \in 1 .. Len(format) /\ e \in j .. Len(format)
      BY <1>1, <2>1
    <3> QED
      BY <3>1, SubSeqRecursiveFirst DEF Text
  <2>7. <<format[j]>> \in Text /\ SubSeq(format, j + 1, e) \in Text
    <3>1. format[j] \in Char /\ \A k \in j + 1 .. e : format[k] \in Char
      BY <1>1, <2>1 DEF Text
    <3>2. j + 1 \in Int /\ e \in Int
      BY <1>1, <2>1
    <3> QED
      BY <3>1, <3>2, CharTexts, SubSeqProperties DEF Text
  <2>8. <<format[j]>> \o (SubSeq(format, j + 1, e) \o LineFrom(format, e + 1))
          = (<<format[j]>> \o SubSeq(format, j + 1, e)) \o LineFrom(format, e + 1)
    <3> DEFINE a == <<format[j]>>
               b == SubSeq(format, j + 1, e)
               c == LineFrom(format, e + 1)
    <3>1. a \in Text /\ b \in Text /\ c \in Text
      BY <1>2, <2>7
    <3> HIDE DEF a, b, c
    <3>2. a \o (b \o c) = (a \o b) \o c
      BY <3>1, ConcatAssociative DEF Text
    <3> QED
      BY <3>2 DEF a, b, c
  <2> QED
    BY <2>5, <2>6, <2>8
<1>5. FromBehind(T, e + 1)
  <2> SUFFICES ASSUME NEW j \in 1 .. e + 1, \A k \in j + 1 .. e + 1 : k \in T
               PROVE  j \in T
    BY DEF FromBehind
  <2>1. CASE j = e + 1
    BY <1>3, <2>1
  <2>2. CASE j # e + 1 /\ j >= i
    <3>1. j \in 1 .. e /\ j + 1 \in j + 1 .. e + 1 /\ j + 1 >= i
      BY <1>1, <2>2
    <3>2. LineFrom(format, j + 1) = From(j + 1)
      BY <3>1
    <3> HIDE DEF From
    <3> QED
      BY <1>4, <2>2, <3>1, <3>2
  <2>3. CASE ~(j >= i)
    BY <2>3
  <2> QED
    BY <2>1, <2>2, <2>3
<1>6. T = 1 .. e + 1
  <2>1. e + 1 \in Nat /\ T \in SUBSET (1 .. e + 1)
    BY <1>1
  <2> HIDE DEF T
  <2> QED
    BY <1>5, <2>1, DownInd
<1>7. i \in 1 .. e + 1 /\ i >= i
  BY <1>1
<1>8. i \in T
  <2> HIDE DEF T
  <2> QED
    BY <1>6, <1>7
<1>9. LineFrom(format, i) = From(i)
  <2> HIDE DEF From
  <2> QED
    BY <1>7, <1>8
<1> QED
  BY <1>9

-----------------------------------------------------------------------------
(* The run of characters that is taken for a piece of text.                *)
LEMMA TextEndType ==
  ASSUME NEW format \in Text, NEW i \in 1 .. Len(format), format[i] # "%"
  PROVE  /\ TextEnd(format, i) \in i .. Len(format)
         /\ \A k \in i .. TextEnd(format, i) : format[k] # "%"
<1> DEFINE n == Len(format)
           C == {p \in Nat : p > i /\ (p = n + 1 \/ (p <= n /\ format[p] = "%"))}
           Ends(j) == /\ \A k \in i .. j : format[k] # "%"
                      /\ j = n \/ format[j + 1] = "%"
<1>1. n \in Nat /\ i \in Nat /\ i <= n /\ i \in 1 .. n
  BY DEF Text
<1>2. n + 1 \in C
  BY <1>1
<1>3. PICK p \in C : \A q \in C : p <= q
  <2>1. C \in SUBSET Nat /\ C # {}
    BY <1>2
  <2> HIDE DEF C
  <2> QED
    BY <2>1, Least
<1>4. p \in Nat /\ p > i /\ p <= n + 1 /\ (p = n + 1 \/ format[p] = "%")
  BY <1>1, <1>2, <1>3
<1>5. p - 1 \in i .. n /\ (p - 1) + 1 = p
  BY <1>1, <1>4
<1>6. ASSUME NEW k \in i .. p - 1 PROVE format[k] # "%"
  <2>1. CASE k = i
    BY <2>1
  <2>2. CASE k # i
    <3>1. k \in Nat /\ k > i /\ k <= n /\ ~(p <= k)
      BY <1>1, <1>4, <2>2
    <3>2. k \notin C
      BY <1>3, <3>1
    <3> QED
      BY <3>1, <3>2
  <2> QED
    BY <2>1, <2>2
<1>7. Ends(p - 1)
  <2>1. p - 1 = n \/ format[(p - 1) + 1] = "%"
    BY <1>1, <1>4, <1>5
  <2> QED
    BY <1>6, <2>1
<1>8. \E j \in i .. n : Ends(j)
  BY <1>5, <1>7
<1>9. TextEnd(format, i) = CHOOSE j \in i .. n : Ends(j)
  BY DEF TextEnd
<1>10. TextEnd(format, i) \in i .. n /\ Ends(TextEnd(format, i))
  <2> HIDE DEF Ends
  <2> QED
    BY <1>8, <1>9
<1> QED
  BY <1>10

-----------------------------------------------------------------------------
(* How the parsing goes on from some place.                                *)
ParsedFrom(format, From, i) ==
  IF i > Len(format) THEN [ok |-> TRUE, items |-> <<>>]
  ELSE IF format[i] # "%"
  THEN Prepend(Other(SubSeq(format, i, TextEnd(format, i))),
               From[TextEnd(format, i) + 1])
  ELSE IF i = Len(format) \/ format[i + 1] \notin Letters THEN Failed
  ELSE Prepend(Item(format[i + 1]), From[i + 2])

(* An item in front of the parsed rest.                                    *)
LEMMA PrependType ==
  ASSUME NEW item \in Items, NEW rest \in Parsed
  PROVE  /\ Prepend(item, rest) \in Parsed
         /\ Prepend(item, rest).ok = rest.ok
         /\ Prepend(item, rest).items = <<item>> \o rest.items
<1>1. rest.items \in Seq(Items)
  BY DEF Parsed
<1>2. <<item>> \o rest.items \in Seq(Items)
  BY <1>1
<1> QED
  BY <1>2 DEF Prepend, Parsed

(* What the parser reads at a place is of its type.                        *)
LEMMA Pieces ==
  ASSUME NEW format \in Text, NEW i \in 1 .. Len(format), format[i] # "%"
  PROVE  /\ SubSeq(format, i, TextEnd(format, i)) \in Text
         /\ TextEnd(format, i) \in i .. Len(format)
<1>1. TextEnd(format, i) \in i .. Len(format)
  BY TextEndType
<1>2. /\ i \in Int /\ TextEnd(format, i) \in Int
      /\ \A k \in i .. TextEnd(format, i) : format[k] \in Char
  BY <1>1 DEF Text
<1> QED
  BY <1>1, <1>2, SubSeqProperties DEF Text

(* What is parsed from a place on is of its type.                          *)
LEMMA ParsedFromType ==
  ASSUME NEW format \in Text, NEW i \in 1 .. Len(format) + 2, NEW From,
         \A j \in i + 1 .. Len(format) + 2 : From[j] \in Parsed
  PROVE  ParsedFrom(format, From, i) \in Parsed
<1>1. Len(format) \in Nat
  BY DEF Text
<1>2. [ok |-> TRUE, items |-> <<>>] \in Parsed /\ Failed \in Parsed
  <2>1. <<>> \in Seq(Items)
    OBVIOUS
  <2> QED
    BY <2>1 DEF Parsed, Failed
<1>3. CASE i > Len(format)
  BY <1>2, <1>3 DEF ParsedFrom
<1>4. CASE ~(i > Len(format)) /\ format[i] # "%"
  <2>1. i \in 1 .. Len(format)
    BY <1>1, <1>4
  <2>2. Other(SubSeq(format, i, TextEnd(format, i))) \in Items
    BY <1>4, <2>1, Pieces, ItemTypes
  <2>3. TextEnd(format, i) + 1 \in i + 1 .. Len(format) + 2
    BY <1>1, <1>4, <2>1, Pieces
  <2>4. From[TextEnd(format, i) + 1] \in Parsed
    BY <2>3
  <2> QED
    BY <1>4, <2>2, <2>4, PrependType DEF ParsedFrom
<1>5. CASE /\ ~(i > Len(format)) /\ ~(format[i] # "%")
           /\ i = Len(format) \/ format[i + 1] \notin Letters
  BY <1>2, <1>5 DEF ParsedFrom
<1>6. CASE /\ ~(i > Len(format)) /\ ~(format[i] # "%")
           /\ ~(i = Len(format) \/ format[i + 1] \notin Letters)
  <2>1. i + 2 \in i + 1 .. Len(format) + 2
    BY <1>1, <1>6
  <2>2. From[i + 2] \in Parsed /\ Item(format[i + 1]) \in Items
    BY <1>6, <2>1, ItemTypes
  <2> QED
    BY <1>6, <2>2, PrependType DEF ParsedFrom
<1> QED
  BY <1>3, <1>4, <1>5, <1>6

(* What is parsed from a place on depends only on what is parsed behind    *)
(* it.                                                                     *)
LEMMA ParsedFromBehind ==
  ASSUME NEW format \in Text, NEW i \in 1 .. Len(format) + 2, NEW f, NEW g,
         \A j \in i + 1 .. Len(format) + 2 : f[j] = g[j]
  PROVE  ParsedFrom(format, f, i) = ParsedFrom(format, g, i)
<1>1. Len(format) \in Nat
  BY DEF Text
<1>2. CASE i > Len(format)
  BY <1>2 DEF ParsedFrom
<1>3. CASE ~(i > Len(format)) /\ format[i] # "%"
  <2>1. i \in 1 .. Len(format)
    BY <1>1, <1>3
  <2>2. TextEnd(format, i) + 1 \in i + 1 .. Len(format) + 2
    BY <1>1, <1>3, <2>1, Pieces
  <2>3. f[TextEnd(format, i) + 1] = g[TextEnd(format, i) + 1]
    BY <2>2
  <2> QED
    BY <1>3, <2>3 DEF ParsedFrom
<1>4. CASE ~(i > Len(format)) /\ ~(format[i] # "%")
  <2>1. i + 2 \in i + 1 .. Len(format) + 2
    BY <1>1, <1>4
  <2>2. f[i + 2] = g[i + 2]
    BY <2>1
  <2> QED
    BY <1>4, <2>2 DEF ParsedFrom
<1> QED
  BY <1>2, <1>3, <1>4

(* fillItems has the equation it was defined by.                           *)
LEMMA FillItemsEquation ==
  ASSUME NEW format \in Text
  PROVE  \E From \in [1 .. Len(format) + 2 -> Parsed] :
           /\ \A i \in 1 .. Len(format) + 2 : From[i] = ParsedFrom(format, From, i)
           /\ fillItems(format) = From[1]
<1> DEFINE n == Len(format)
           m == Len(format) + 2
           V == Parsed
           rhs == [i \in 1 .. m |-> [f \in [1 .. m -> V] |-> ParsedFrom(format, f, i)]]
           Is(f) == f = [i \in 1 .. Len(format) + 2 |-> ParsedFrom(format, f, i)]
           From[i \in 1 .. Len(format) + 2] ==
             IF i > Len(format) THEN [ok |-> TRUE, items |-> <<>>]
             ELSE IF format[i] # "%"
             THEN Prepend(Other(SubSeq(format, i, TextEnd(format, i))),
                          From[TextEnd(format, i) + 1])
             ELSE IF i = Len(format) \/ format[i + 1] \notin Letters THEN Failed
             ELSE Prepend(Item(format[i + 1]), From[i + 2])
<1>1. m \in Nat
  BY DEF Text
<1>2. V # {}
  <2>1. <<>> \in Seq(Items)
    OBVIOUS
  <2>2. Failed \in Parsed
    BY <2>1 DEF Parsed, Failed
  <2> QED
    BY <2>2
<1>3. rhs \in RightSides(m, V)
  <2>1. ASSUME NEW i \in 1 .. m, NEW f \in [1 .. m -> V]
        PROVE  ParsedFrom(format, f, i) \in V
    <3>1. \A j \in i + 1 .. m : j \in 1 .. m
      BY <1>1
    <3>2. \A j \in i + 1 .. m : f[j] \in V
      <4> HIDE DEF V, m
      <4> QED
        BY <3>1
    <3> QED
      BY <3>2, ParsedFromType
  <2> HIDE DEF V, m
  <2> QED
    BY <2>1 DEF RightSides
<1>4. \A i \in 1 .. m : \A f \in [1 .. m -> V] : rhs[i][f] = ParsedFrom(format, f, i)
  <2> HIDE DEF V, m
  <2> QED
    OBVIOUS
<1>5. LookBehind(rhs, m, V)
  <2>1. ASSUME NEW i \in 1 .. m, NEW f \in [1 .. m -> V], NEW g \in [1 .. m -> V],
               \A j \in i + 1 .. m : f[j] = g[j]
        PROVE  rhs[i][f] = rhs[i][g]
    <3>1. ParsedFrom(format, f, i) = ParsedFrom(format, g, i)
      BY <2>1, ParsedFromBehind
    <3> HIDE DEF rhs, V, m
    <3> QED
      BY <1>4, <3>1
  <2> HIDE DEF rhs, V, m
  <2> QED
    BY <2>1 DEF LookBehind
<1>6. \E f \in [1 .. m -> V] : Solves(f, m, rhs)
  <2>1. m \in Nat
    BY <1>1
  <2> HIDE DEF rhs, V, m
  <2> QED
    BY <1>2, <1>3, <1>5, <2>1, DownwardsExists
<1>7. PICK f \in [1 .. m -> V] : Solves(f, m, rhs)
  BY <1>6
<1>8. \A i \in 1 .. m : f[i] = ParsedFrom(format, f, i)
  <2> HIDE DEF rhs, V, m
  <2> QED
    BY <1>4, <1>7 DEF Solves
<1>9. Is(f)
  BY <1>8
<1>10. Is(From)
  <2>1. From = CHOOSE g : Is(g)
    BY DEF ParsedFrom
  <2> HIDE DEF From, Is
  <2> QED
    BY <1>9, <2>1
<1>11. fillItems(format) = From[1]
  BY DEF fillItems
<1> HIDE DEF From
<1>12. \A i \in 1 .. m : From[i] = ParsedFrom(format, From, i)
  BY <1>10
<1>13. From \in [1 .. m -> Parsed]
  <2> DEFINE T == {i \in 1 .. m : From[i] \in Parsed}
  <2>1. FromBehind(T, m)
    <3> SUFFICES ASSUME NEW i \in 1 .. m, \A j \in i + 1 .. m : j \in T
                 PROVE  i \in T
      BY DEF FromBehind
    <3>1. ParsedFrom(format, From, i) \in Parsed
      BY ParsedFromType
    <3> HIDE DEF m
    <3> QED
      BY <1>12, <3>1
  <2>2. T = 1 .. m
    <3>1. m \in Nat /\ T \in SUBSET (1 .. m)
      BY <1>1
    <3> HIDE DEF T, m
    <3> QED
      BY <2>1, <3>1, DownInd
  <2>3. From = [i \in 1 .. m |-> ParsedFrom(format, From, i)]
    BY <1>10
  <2> HIDE DEF m
  <2> QED
    BY <1>12, <2>2, <2>3
<1> QED
  BY <1>11, <1>12, <1>13

-----------------------------------------------------------------------------
(* The marks from some place on are as they should be.                     *)
WellFormedFrom(format, i) ==
  \A k \in Marks(format) :
    k >= i => k < Len(format) /\ format[k + 1] \in Letters

(* What the parsing returns from a place that is not behind a mark.        *)
Parses(format, parsed, i) ==
  /\ parsed.ok <=> WellFormedFrom(format, i)
  /\ WellFormed(format) => run(parsed.items) = LineFrom(format, i)

(* From every place that is no marked letter, what is well formed is       *)
(* parsed, and its items write the documented line from there.             *)
LEMMA ParsesAll ==
  ASSUME NEW format \in Text, NEW From \in [1 .. Len(format) + 2 -> Parsed],
         \A i \in 1 .. Len(format) + 2 : From[i] = ParsedFrom(format, From, i)
  PROVE  \A i \in 1 .. Len(format) + 1 :
           i - 1 \notin Marks(format) => Parses(format, From[i], i)
<1> DEFINE n == Len(format)
           T == {i \in 1 .. n + 1 : i - 1 \notin Marks(format) => Parses(format, From[i], i)}
<1>1. n \in Nat
  BY DEF Text
<1>2. \A k \in Marks(format) : k \in 1 .. n /\ format[k] = "%" /\ k + 1 \notin Marks(format)
  BY MarksEquation, BehindMark
<1>3. ASSUME NEW i \in 1 .. n + 1, i - 1 \notin Marks(format),
             \A j \in i + 1 .. n + 1 : j - 1 \notin Marks(format) => Parses(format, From[j], j)
      PROVE  Parses(format, From[i], i)
  <2>1. i \in 1 .. Len(format) + 2 /\ From[i] = ParsedFrom(format, From, i)
    BY <1>1
  <2>2. CASE i = n + 1
    <3>1. From[i] = [ok |-> TRUE, items |-> <<>>]
      BY <1>1, <2>1, <2>2 DEF ParsedFrom
    <3>2. WellFormedFrom(format, i)
      BY <1>1, <1>2, <2>2 DEF WellFormedFrom
    <3>3. run(From[i].items) = LineFrom(format, i)
      BY <2>2, <3>1, RunEmpty, LineFromEnd
    <3> QED
      BY <3>1, <3>2, <3>3 DEF Parses
  <2>3. CASE i # n + 1 /\ format[i] # "%"
    <3> DEFINE e == TextEnd(format, i)
               text == SubSeq(format, i, e)
    <3>1. i \in 1 .. n
      BY <1>1, <2>3
    <3>2. e \in i .. n /\ \A k \in i .. e : format[k] # "%"
      BY <2>3, <3>1, TextEndType
    <3>3. text \in Text
      BY <2>3, <3>1, Pieces
    <3>4. From[i] = Prepend(Other(text), From[e + 1])
      <4>1. ~(i > Len(format))
        BY <1>1, <3>1
      <4> QED
        BY <2>1, <2>3, <4>1 DEF ParsedFrom
    <3>5. e + 1 \in i + 1 .. n + 1 /\ e + 1 \in 1 .. n + 2 /\ (e + 1) - 1 = e
      BY <1>1, <3>1, <3>2
    <3>6. e \notin Marks(format)
      BY <1>2, <3>2, <3>1
    <3> HIDE DEF e
    <3>7. Parses(format, From[e + 1], e + 1) /\ From[e + 1] \in Parsed
      BY <1>3, <3>5, <3>6
    <3>8. Other(text) \in Items /\ getItem(Other(text)) = text
      BY <3>3, ItemTypes
    <3>9. From[i].ok = From[e + 1].ok /\ From[i].items = <<Other(text)>> \o From[e + 1].items
      BY <3>4, <3>7, <3>8, PrependType
    <3>10. WellFormedFrom(format, i) <=> WellFormedFrom(format, e + 1)
      <4>1. ASSUME NEW k \in Marks(format) PROVE k >= i <=> k >= e + 1
        <5>1. e \in Nat /\ i \in Nat /\ i <= e /\ k \in Nat
          BY <1>1, <1>2, <3>1, <3>2
        <5>2. k \notin i .. e
          BY <1>2, <3>2
        <5> QED
          BY <5>1, <5>2
      <4> QED
        BY <4>1 DEF WellFormedFrom
    <3>11. ASSUME WellFormed(format) PROVE run(From[i].items) = LineFrom(format, i)
      <4>1. run(From[e + 1].items) = LineFrom(format, e + 1)
        BY <3>7, <3>11 DEF Parses
      <4>2. From[e + 1].items \in Seq(Items)
        BY <3>7 DEF Parsed
      <4>3. run(From[i].items) = text \o LineFrom(format, e + 1)
        BY <3>8, <3>9, <4>1, <4>2, RunFirst
      <4> QED
        BY <1>3, <3>1, <3>2, <3>11, <4>3, LineOfText
    <3> QED
      BY <3>7, <3>9, <3>10, <3>11 DEF Parses
  <2>4. CASE i # n + 1 /\ ~(format[i] # "%")
    <3>1. i \in 1 .. n /\ ~(i > Len(format))
      BY <1>1, <2>4
    <3>2. i \in Marks(format)
      BY <1>3, <2>4, <3>1, MarksEquation
    <3>3. CASE i = n \/ format[i + 1] \notin Letters
      <4>1. From[i] = Failed
        BY <2>1, <2>4, <3>1, <3>3 DEF ParsedFrom
      <4>2. ~WellFormedFrom(format, i) /\ ~WellFormed(format)
        BY <1>1, <3>1, <3>2, <3>3 DEF WellFormedFrom, WellFormed
      <4> QED
        BY <4>1, <4>2 DEF Parses, Failed
    <3>4. CASE ~(i = n \/ format[i + 1] \notin Letters)
      <4> DEFINE item == Item(format[i + 1])
      <4>1. From[i] = Prepend(item, From[i + 2])
        BY <2>1, <2>4, <3>1, <3>4 DEF ParsedFrom
      <4>2. /\ i + 1 \in 1 .. n /\ (i + 1) - 1 = i /\ (i + 1) + 1 = i + 2
            /\ i + 2 \in i + 1 .. n + 1 /\ i + 2 \in 1 .. n + 2 /\ (i + 2) - 1 = i + 1
        BY <1>1, <3>1, <3>4
      <4>3. i + 1 \notin Marks(format)
        BY <1>2, <3>2
      <4>4. item \in Items
        BY <3>4, ItemTypes
      <4> HIDE DEF item
      <4>5. Parses(format, From[i + 2], i + 2) /\ From[i + 2] \in Parsed
        BY <1>3, <4>2, <4>3
      <4>6. From[i].ok = From[i + 2].ok /\ From[i].items = <<item>> \o From[i + 2].items
        BY <4>1, <4>4, <4>5, PrependType
      <4>7. WellFormedFrom(format, i) <=> WellFormedFrom(format, i + 2)
        <5>1. i < Len(format) /\ format[i + 1] \in Letters
          BY <1>1, <3>1, <3>4
        <5>2. \A k \in Marks(format) : k >= i <=> (k = i \/ k >= i + 2)
          BY <1>1, <1>2, <3>1, <4>3
        <5> QED
          BY <5>1, <5>2 DEF WellFormedFrom
      <4>8. ASSUME WellFormed(format) PROVE run(From[i].items) = LineFrom(format, i)
        <5>1. run(From[i + 2].items) = LineFrom(format, i + 2)
          BY <4>5, <4>8 DEF Parses
        <5>2. From[i + 2].items \in Seq(Items)
          BY <4>5 DEF Parsed
        <5>3. run(From[i].items) = getItem(item) \o LineFrom(format, i + 2)
          BY <4>4, <4>6, <5>1, <5>2, RunFirst
        <5>4. Place(format, i) = <<>> /\ Place(format, i + 1) = getItem(item)
          BY <3>2, <4>2, <4>3 DEF Place, item
        <5>5. LineFrom(format, i + 1) = getItem(item) \o LineFrom(format, i + 2)
          BY <4>2, <4>8, <5>4, LineFromStep
        <5>6. LineFrom(format, i) = <<>> \o LineFrom(format, i + 1)
          BY <3>1, <4>8, <5>4, LineFromStep
        <5>7. LineFrom(format, i + 1) \in Text
          BY <3>1, <4>8, LineFromStep
        <5>8. <<>> \o LineFrom(format, i + 1) = LineFrom(format, i + 1)
          BY <5>7 DEF Text
        <5> QED
          BY <5>3, <5>5, <5>6, <5>8
      <4> QED
        BY <4>5, <4>6, <4>7, <4>8 DEF Parses
    <3> QED
      BY <3>3, <3>4
  <2> QED
    BY <2>2, <2>3, <2>4
<1>4. FromBehind(T, n + 1)
  <2> SUFFICES ASSUME NEW i \in 1 .. n + 1, \A j \in i + 1 .. n + 1 : j \in T
               PROVE  i \in T
    BY DEF FromBehind
  <2>1. \A j \in i + 1 .. n + 1 : j - 1 \notin Marks(format) => Parses(format, From[j], j)
    OBVIOUS
  <2> QED
    BY <1>3, <2>1
<1>5. T = 1 .. n + 1
  <2>1. n + 1 \in Nat /\ T \in SUBSET (1 .. n + 1)
    BY <1>1
  <2> HIDE DEF T
  <2> QED
    BY <1>4, <2>1, DownInd
<1> QED
  BY <1>5

(* The parser accepts what is well formed, and what it makes of that       *)
(* writes the line of the rules.                                           *)
LEMMA FillItemsParses ==
  ASSUME NEW format \in Text
  PROVE  /\ fillItems(format) \in Parsed
         /\ fillItems(format).ok <=> WellFormed(format)
         /\ WellFormed(format) => run(fillItems(format).items) = Line(format)
<1>1. PICK From \in [1 .. Len(format) + 2 -> Parsed] :
        /\ \A i \in 1 .. Len(format) + 2 : From[i] = ParsedFrom(format, From, i)
        /\ fillItems(format) = From[1]
  BY FillItemsEquation
<1>2. Len(format) \in Nat /\ 1 \in 1 .. Len(format) + 1 /\ 1 \in 1 .. Len(format) + 2
  BY DEF Text
<1>3. 1 - 1 \notin Marks(format)
  BY MarksEquation
<1>4. Parses(format, From[1], 1)
  BY <1>1, <1>2, <1>3, ParsesAll
<1>5. WellFormedFrom(format, 1) <=> WellFormed(format)
  BY MarksEquation, <1>2 DEF WellFormedFrom, WellFormed
<1> QED
  BY <1>1, <1>2, <1>4, <1>5, LineFromStart DEF Parses

-----------------------------------------------------------------------------
(* Where a separator occurs, and what find returns.                        *)
Occurs(src, sep, p) ==
  p \in 1 .. Len(src) - Len(sep) + 1 /\ SubSeq(src, p, p + Len(sep) - 1) = sep

IsFound(src, sep, idx, pos) ==
  IF \E p \in Nat : p >= idx /\ Occurs(src, sep, p)
  THEN /\ pos >= idx /\ Occurs(src, sep, pos)
       /\ \A p \in Nat : p >= idx /\ Occurs(src, sep, p) => pos <= p
  ELSE pos = 0

(* find answers the first place at which the separator stands, or none.    *)
LEMMA FindFinds ==
  ASSUME NEW src \in Text, NEW sep \in Text, NEW idx \in Nat, idx > 0
  PROVE  find(src, sep, idx) \in Nat /\ IsFound(src, sep, idx, find(src, sep, idx))
<1> DEFINE At == {p \in idx .. Len(src) - Len(sep) + 1 :
                    SubSeq(src, p, p + Len(sep) - 1) = sep}
<1>1. Len(src) \in Nat /\ Len(sep) \in Nat
  BY DEF Text
<1>2. \A p \in Nat : p \in At <=> (p >= idx /\ Occurs(src, sep, p))
  BY <1>1 DEF Occurs
<1>3. At \in SUBSET Nat
  BY <1>1
<1>4. find(src, sep, idx) = IF At = {} THEN 0 ELSE CHOOSE p \in At : \A q \in At : p <= q
  BY DEF find
<1> HIDE DEF At
<1>5. CASE At = {}
  BY <1>2, <1>3, <1>4, <1>5 DEF IsFound
<1>6. CASE At # {}
  <2>1. \E p \in At : \A q \in At : p <= q
    BY <1>3, <1>6, Least
  <2>2. find(src, sep, idx) \in At /\ \A q \in At : find(src, sep, idx) <= q
    BY <1>4, <1>6, <2>1
  <2> QED
    BY <1>2, <1>3, <2>2 DEF IsFound
<1> QED
  BY <1>5, <1>6

(* Two places found are the same.                                          *)
LEMMA FoundOnce ==
  ASSUME NEW src, NEW sep, NEW idx, NEW p \in Nat, NEW q \in Nat,
         IsFound(src, sep, idx, p), IsFound(src, sep, idx, q)
  PROVE  p = q
<1>1. CASE \E r \in Nat : r >= idx /\ Occurs(src, sep, r)
  BY <1>1 DEF IsFound
<1>2. CASE ~ \E r \in Nat : r >= idx /\ Occurs(src, sep, r)
  BY <1>2 DEF IsFound
<1> QED
  BY <1>1, <1>2

-----------------------------------------------------------------------------
(* How the splitting goes on from some place.                              *)
SplitFrom(src, sep, From, idx) ==
  LET pos == find(src, sep, idx)
  IN  IF idx > Len(src) THEN <<>>
      ELSE IF pos = 0 THEN <<SubSeq(src, idx, Len(src))>>
      ELSE IF pos = idx THEN From[idx + Len(sep)]
      ELSE <<SubSeq(src, idx, pos - 1)>> \o From[pos + Len(sep)]

(* The places that it uses are later ones.                                 *)
LEMMA SplitPlaces ==
  ASSUME NEW src \in Text, NEW sep \in Text, sep # <<>>,
         NEW idx \in 1 .. Len(src) + Len(sep), ~(idx > Len(src)),
         find(src, sep, idx) # 0
  PROVE  /\ find(src, sep, idx) \in idx .. Len(src)
         /\ find(src, sep, idx) + Len(sep) \in idx + 1 .. Len(src) + Len(sep)
<1>1. Len(src) \in Nat /\ Len(sep) \in Nat /\ Len(sep) > 0
  BY DEF Text
<1>2. /\ find(src, sep, idx) \in Nat /\ find(src, sep, idx) >= idx
      /\ Occurs(src, sep, find(src, sep, idx))
  BY FindFinds DEF IsFound
<1> QED
  BY <1>1, <1>2 DEF Occurs

(* A piece of a text is a text.                                            *)
LEMMA Cuts ==
  ASSUME NEW src \in Text, NEW i \in Nat, i > 0, NEW j \in Int, j <= Len(src)
  PROVE  SubSeq(src, i, j) \in Text
<1>1. i \in Int /\ \A k \in i .. j : src[k] \in Char
  BY DEF Text
<1> QED
  BY <1>1, SubSeqProperties DEF Text

(* The pieces from a place on are texts.                                   *)
LEMMA SplitFromType ==
  ASSUME NEW src \in Text, NEW sep \in Text, sep # <<>>,
         NEW idx \in 1 .. Len(src) + Len(sep), NEW From,
         \A j \in idx + 1 .. Len(src) + Len(sep) : From[j] \in Seq(Text)
  PROVE  SplitFrom(src, sep, From, idx) \in Seq(Text)
<1> DEFINE pos == find(src, sep, idx)
<1>1. Len(src) \in Nat /\ Len(sep) \in Nat
  BY DEF Text
<1>2. CASE idx > Len(src)
  BY <1>2 DEF SplitFrom
<1>3. CASE ~(idx > Len(src)) /\ pos = 0
  <2>1. SubSeq(src, idx, Len(src)) \in Text
    BY <1>1, Cuts
  <2>2. <<SubSeq(src, idx, Len(src))>> \in Seq(Text)
    BY <2>1, OneElement
  <2> QED
    BY <1>3, <2>2 DEF SplitFrom
<1>4. CASE ~(idx > Len(src)) /\ pos # 0
  <2>1. pos \in idx .. Len(src) /\ pos + Len(sep) \in idx + 1 .. Len(src) + Len(sep)
    BY <1>4, SplitPlaces
  <2>2. From[pos + Len(sep)] \in Seq(Text)
    BY <2>1
  <2>3. SubSeq(src, idx, pos - 1) \in Text
    <3>1. pos - 1 \in Int /\ pos - 1 <= Len(src)
      BY <1>1, <2>1
    <3> QED
      BY <3>1, Cuts
  <2> HIDE DEF pos
  <2>4. <<SubSeq(src, idx, pos - 1)>> \o From[pos + Len(sep)] \in Seq(Text)
    BY <2>2, <2>3
  <2> QED
    BY <1>4, <2>2, <2>4 DEF SplitFrom, pos
<1> QED
  BY <1>2, <1>3, <1>4

(* The pieces from a place on depend only on those from later places.      *)
LEMMA SplitFromBehind ==
  ASSUME NEW src \in Text, NEW sep \in Text, sep # <<>>,
         NEW idx \in 1 .. Len(src) + Len(sep), NEW f, NEW g,
         \A j \in idx + 1 .. Len(src) + Len(sep) : f[j] = g[j]
  PROVE  SplitFrom(src, sep, f, idx) = SplitFrom(src, sep, g, idx)
<1> DEFINE pos == find(src, sep, idx)
<1>1. CASE idx > Len(src) \/ pos = 0
  BY <1>1 DEF SplitFrom
<1>2. CASE ~(idx > Len(src)) /\ pos # 0
  <2>1. f[pos + Len(sep)] = g[pos + Len(sep)]
    BY <1>2, SplitPlaces
  <2> QED
    BY <1>2, <2>1 DEF SplitFrom
<1> QED
  BY <1>1, <1>2

Splitting(From, src, sep) ==
  /\ From \in [1 .. Len(src) + Len(sep) -> Seq(Text)]
  /\ \A i \in 1 .. Len(src) + Len(sep) : From[i] = SplitFrom(src, sep, From, i)

(* split has the equation it was defined by.                               *)
LEMMA SplitEquation ==
  ASSUME NEW src \in Text, NEW sep \in Text, sep # <<>>
  PROVE  \E From : Splitting(From, src, sep) /\ split(src, sep) = From[1]
<1> DEFINE m == Len(src) + Len(sep)
           V == Seq(Text)
           rhs == [i \in 1 .. m |-> [f \in [1 .. m -> V] |-> SplitFrom(src, sep, f, i)]]
           Is(f) == f = [i \in 1 .. Len(src) + Len(sep) |-> SplitFrom(src, sep, f, i)]
           From[idx \in 1 .. Len(src) + Len(sep)] ==
             LET pos == find(src, sep, idx)
             IN  IF idx > Len(src) THEN <<>>
                 ELSE IF pos = 0 THEN <<SubSeq(src, idx, Len(src))>>
                 ELSE IF pos = idx THEN From[idx + Len(sep)]
                 ELSE <<SubSeq(src, idx, pos - 1)>> \o From[pos + Len(sep)]
<1>1. m \in Nat
  BY DEF Text
<1>2. V # {}
  <2>1. <<>> \in V
    OBVIOUS
  <2> QED
    BY <2>1
<1>3. rhs \in RightSides(m, V)
  <2>1. ASSUME NEW i \in 1 .. m, NEW f \in [1 .. m -> V]
        PROVE  SplitFrom(src, sep, f, i) \in V
    <3>1. \A j \in i + 1 .. m : j \in 1 .. m
      BY <1>1
    <3>2. \A j \in i + 1 .. m : f[j] \in V
      <4> HIDE DEF V, m
      <4> QED
        BY <3>1
    <3> QED
      BY <3>2, SplitFromType
  <2> HIDE DEF V, m
  <2> QED
    BY <2>1 DEF RightSides
<1>4. \A i \in 1 .. m : \A f \in [1 .. m -> V] : rhs[i][f] = SplitFrom(src, sep, f, i)
  <2> HIDE DEF V, m
  <2> QED
    OBVIOUS
<1>5. LookBehind(rhs, m, V)
  <2>1. ASSUME NEW i \in 1 .. m, NEW f \in [1 .. m -> V], NEW g \in [1 .. m -> V],
               \A j \in i + 1 .. m : f[j] = g[j]
        PROVE  rhs[i][f] = rhs[i][g]
    <3>1. SplitFrom(src, sep, f, i) = SplitFrom(src, sep, g, i)
      BY <2>1, SplitFromBehind
    <3> HIDE DEF rhs, V, m
    <3> QED
      BY <1>4, <3>1
  <2> HIDE DEF rhs, V, m
  <2> QED
    BY <2>1 DEF LookBehind
<1>6. \E f \in [1 .. m -> V] : Solves(f, m, rhs)
  <2>1. m \in Nat
    BY <1>1
  <2> HIDE DEF rhs, V, m
  <2> QED
    BY <1>2, <1>3, <1>5, <2>1, DownwardsExists
<1>7. PICK f \in [1 .. m -> V] : Solves(f, m, rhs)
  BY <1>6
<1>8. \A i \in 1 .. m : f[i] = SplitFrom(src, sep, f, i)
  <2> HIDE DEF rhs, V, m
  <2> QED
    BY <1>4, <1>7 DEF Solves
<1>9. Is(f)
  BY <1>8
<1>10. Is(From)
  <2>1. From = CHOOSE g : Is(g)
    BY DEF SplitFrom
  <2> HIDE DEF From, Is
  <2> QED
    BY <1>9, <2>1
<1>11. split(src, sep) = From[1]
  BY DEF split
<1> HIDE DEF From
<1>12. \A i \in 1 .. m : From[i] = SplitFrom(src, sep, From, i)
  BY <1>10
<1>13. From \in [1 .. m -> V]
  <2> DEFINE T == {i \in 1 .. m : From[i] \in V}
  <2>1. FromBehind(T, m)
    <3> SUFFICES ASSUME NEW i \in 1 .. m, \A j \in i + 1 .. m : j \in T
                 PROVE  i \in T
      BY DEF FromBehind
    <3>1. SplitFrom(src, sep, From, i) \in V
      BY SplitFromType
    <3> HIDE DEF m
    <3> QED
      BY <1>12, <3>1
  <2>2. T = 1 .. m
    <3>1. m \in Nat /\ T \in SUBSET (1 .. m)
      BY <1>1
    <3> HIDE DEF T, m
    <3> QED
      BY <2>1, <3>1, DownInd
  <2>3. From = [i \in 1 .. m |-> SplitFrom(src, sep, From, i)]
    BY <1>10
  <2> HIDE DEF m
  <2> QED
    BY <1>12, <2>2, <2>3
<1> QED
  BY <1>11, <1>12, <1>13 DEF Splitting

-----------------------------------------------------------------------------
(* What comes behind some text is split as if it stood alone.              *)
LEMMA OccursBehind ==
  ASSUME NEW a \in Text, NEW b \in Text, NEW sep \in Text, sep # <<>>,
         NEW i \in Nat, i > 0
  PROVE  Occurs(a \o b, sep, Len(a) + i) <=> Occurs(b, sep, i)
<1>1. /\ Len(a) \in Nat /\ Len(b) \in Nat /\ Len(sep) \in Nat /\ Len(sep) > 0
      /\ Len(a \o b) = Len(a) + Len(b)
  BY DEF Text
<1>2. Len(a) + i \in 1 .. Len(a \o b) - Len(sep) + 1 <=> i \in 1 .. Len(b) - Len(sep) + 1
  BY <1>1
<1>3. ASSUME i \in 1 .. Len(b) - Len(sep) + 1
      PROVE  SubSeq(a \o b, Len(a) + i, Len(a) + i + Len(sep) - 1)
               = SubSeq(b, i, i + Len(sep) - 1)
  <2> DEFINE m == Len(a) + i
             n == Len(a) + i + Len(sep) - 1
  <2>1. m \in Len(a) + 1 .. Len(a) + Len(b) /\ n \in Len(a) + 1 .. Len(a) + Len(b)
    BY <1>1, <1>3
  <2>2. m - Len(a) = i /\ n - Len(a) = i + Len(sep) - 1
    BY <1>1
  <2> HIDE DEF m, n
  <2>3. SubSeq(a \o b, m, n) = SubSeq(b, m - Len(a), n - Len(a))
    BY <2>1, SubSeqOfConcat2 DEF Text
  <2> QED
    BY <2>2, <2>3 DEF m, n
<1> QED
  BY <1>2, <1>3 DEF Occurs

(* From behind a text on, find finds what it finds in the rest alone.      *)
LEMMA FindBehind ==
  ASSUME NEW a \in Text, NEW b \in Text, NEW sep \in Text, sep # <<>>,
         NEW i \in Nat, i > 0
  PROVE  find(a \o b, sep, Len(a) + i)
           = IF find(b, sep, i) = 0 THEN 0 ELSE Len(a) + find(b, sep, i)
<1> DEFINE src == a \o b
           la == Len(a)
           pos == find(b, sep, i)
           there == IF pos = 0 THEN 0 ELSE la + pos
<1>1. la \in Nat /\ src \in Text
  BY DEF Text
<1>2. pos \in Nat /\ IsFound(b, sep, i, pos)
  BY FindFinds
<1>3. /\ find(src, sep, la + i) \in Nat
      /\ IsFound(src, sep, la + i, find(src, sep, la + i))
  <2>1. la + i \in Nat /\ la + i > 0
    BY <1>1
  <2> QED
    BY <1>1, <2>1, FindFinds
<1>4. \A q \in Nat : q > 0 => (Occurs(src, sep, la + q) <=> Occurs(b, sep, q))
  BY OccursBehind
<1>5. \A p \in Nat : p >= la + i => p - la \in Nat /\ p - la >= i /\ p - la > 0 /\ la + (p - la) = p
  BY <1>1
<1> HIDE DEF src, la, pos
<1>6. IsFound(src, sep, la + i, there)
  <2>1. CASE \E q \in Nat : q >= i /\ Occurs(b, sep, q)
    <3>1. pos >= i /\ Occurs(b, sep, pos) /\ \A q \in Nat : q >= i /\ Occurs(b, sep, q) => pos <= q
      BY <1>2, <2>1 DEF IsFound
    <3>2. there = la + pos /\ pos > 0 /\ la + pos >= la + i /\ la + pos \in Nat
      BY <1>1, <1>2, <3>1
    <3>3. Occurs(src, sep, there)
      BY <1>2, <1>4, <3>1, <3>2
    <3>4. ASSUME NEW p \in Nat, p >= la + i, Occurs(src, sep, p) PROVE there <= p
      <4>1. Occurs(b, sep, p - la)
        BY <1>4, <1>5, <3>4
      <4>2. pos <= p - la
        BY <1>5, <3>1, <3>4, <4>1
      <4> QED
        BY <1>1, <1>2, <3>2, <4>2
    <3> HIDE DEF there
    <3> QED
      BY <3>2, <3>3, <3>4 DEF IsFound
  <2>2. CASE ~ \E q \in Nat : q >= i /\ Occurs(b, sep, q)
    <3>1. there = 0
      BY <1>2, <2>2 DEF IsFound
    <3>2. ~ \E p \in Nat : p >= la + i /\ Occurs(src, sep, p)
      <4> SUFFICES ASSUME NEW p \in Nat, p >= la + i, Occurs(src, sep, p) PROVE FALSE
        OBVIOUS
      <4>1. Occurs(b, sep, p - la)
        BY <1>4, <1>5
      <4> QED
        BY <1>5, <2>2, <4>1
    <3> HIDE DEF there
    <3> QED
      BY <3>1, <3>2 DEF IsFound
  <2> QED
    BY <2>1, <2>2
<1>7. there \in Nat
  BY <1>1, <1>2
<1> HIDE DEF there
<1>8. find(src, sep, la + i) = there
  BY <1>3, <1>6, <1>7, FoundOnce
<1> QED
  BY <1>8 DEF there, pos, la, src

(* Pieces of a text are those of the text it ends.                         *)
LEMMA CutsBehind ==
  ASSUME NEW a \in Text, NEW b \in Text, NEW i \in 1 .. Len(b), NEW j \in i .. Len(b)
  PROVE  SubSeq(a \o b, Len(a) + i, Len(a) + j) = SubSeq(b, i, j)
<1> DEFINE m == Len(a) + i
           n == Len(a) + j
<1>1. Len(a) \in Nat /\ Len(b) \in Nat
  BY DEF Text
<1>2. m \in Len(a) + 1 .. Len(a) + Len(b) /\ n \in Len(a) + 1 .. Len(a) + Len(b)
  BY <1>1
<1>3. m - Len(a) = i /\ n - Len(a) = j
  BY <1>1
<1> HIDE DEF m, n
<1>4. SubSeq(a \o b, m, n) = SubSeq(b, m - Len(a), n - Len(a))
  BY <1>2, SubSeqOfConcat2 DEF Text
<1> QED
  BY <1>3, <1>4 DEF m, n

(* The pieces of a text from a place on are those of the text that starts  *)
(* there.                                                                  *)
LEMMA SplitBehind ==
  ASSUME NEW a \in Text, NEW b \in Text, NEW sep \in Text, sep # <<>>,
         NEW F, Splitting(F, a \o b, sep), NEW G, Splitting(G, b, sep)
  PROVE  \A i \in 1 .. Len(b) + Len(sep) : F[Len(a) + i] = G[i]
<1> DEFINE src == a \o b
           la == Len(a)
           lb == Len(b)
           ls == Len(sep)
           m == lb + ls
           T == {i \in 1 .. m : F[la + i] = G[i]}
<1>1. la \in Nat /\ lb \in Nat /\ ls \in Nat /\ ls > 0 /\ Len(src) = la + lb /\ m \in Nat
  BY DEF Text
<1>2. /\ \A i \in 1 .. m : G[i] = SplitFrom(b, sep, G, i)
      /\ \A i \in 1 .. m : F[la + i] = SplitFrom(src, sep, F, la + i)
  <2>1. \A i \in 1 .. m : la + i \in 1 .. Len(src) + ls
    BY <1>1
  <2> QED
    BY <2>1 DEF Splitting
<1>3. ASSUME NEW i \in 1 .. m, \A j \in i + 1 .. m : F[la + j] = G[j]
      PROVE  F[la + i] = G[i]
  <2> DEFINE pos == find(b, sep, i)
  <2>1. find(src, sep, la + i) = IF pos = 0 THEN 0 ELSE la + pos
    BY FindBehind
  <2>2. i > lb <=> la + i > Len(src)
    BY <1>1
  <2>3. CASE i > lb
    <3>1. G[i] = <<>> /\ F[la + i] = <<>>
      BY <1>2, <2>2, <2>3 DEF SplitFrom
    <3> QED
      BY <3>1
  <2>4. CASE ~(i > lb) /\ pos = 0
    <3>1. i \in 1 .. lb /\ lb \in i .. lb
      BY <1>1, <2>4
    <3>2. SubSeq(src, la + i, Len(src)) = SubSeq(b, i, lb)
      BY <1>1, <3>1, CutsBehind
    <3>3. F[la + i] = <<SubSeq(src, la + i, Len(src))>>
      BY <1>2, <2>1, <2>2, <2>4 DEF SplitFrom
    <3>4. G[i] = <<SubSeq(b, i, lb)>>
      BY <1>2, <2>4 DEF SplitFrom
    <3> QED
      BY <3>2, <3>3, <3>4
  <2>5. CASE ~(i > lb) /\ pos # 0
    <3>1. pos \in i .. lb /\ pos + ls \in i + 1 .. m
      BY <2>5, SplitPlaces
    <3>2. F[la + (pos + ls)] = G[pos + ls]
      BY <1>3, <3>1
    <3>3. (la + pos) + ls = la + (pos + ls) /\ la + pos # 0 /\ (la + pos = la + i <=> pos = i)
      BY <1>1, <3>1
    <3>4. find(src, sep, la + i) = la + pos
      BY <2>1, <2>5
    <3>5. CASE pos = i
      <4>1. G[i] = G[i + ls]
        BY <1>2, <2>5, <3>5 DEF SplitFrom
      <4>2. F[la + i] = F[(la + i) + ls]
        <5> HIDE DEF pos, src, la, lb, ls
        <5> QED
          BY <1>2, <2>2, <2>5, <3>3, <3>4, <3>5 DEF SplitFrom, ls
      <4> QED
        BY <3>2, <3>3, <3>5, <4>1, <4>2
    <3>6. CASE pos # i
      <4>1. G[i] = <<SubSeq(b, i, pos - 1)>> \o G[pos + ls]
        BY <1>2, <2>5, <3>6 DEF SplitFrom
      <4>2. F[la + i] = <<SubSeq(src, la + i, (la + pos) - 1)>> \o F[(la + pos) + ls]
        <5> HIDE DEF pos, src, la, lb, ls
        <5> QED
          BY <1>2, <2>2, <2>5, <3>3, <3>4, <3>6 DEF SplitFrom, ls
      <4>3. i \in 1 .. lb /\ pos - 1 \in i .. lb /\ (la + pos) - 1 = la + (pos - 1)
        BY <1>1, <3>1, <3>6
      <4>4. SubSeq(src, la + i, la + (pos - 1)) = SubSeq(b, i, pos - 1)
        BY <4>3, CutsBehind
      <4> QED
        BY <3>2, <3>3, <4>1, <4>2, <4>3, <4>4
    <3> QED
      BY <3>5, <3>6
  <2> QED
    BY <2>3, <2>4, <2>5
<1>4. FromBehind(T, m)
  <2> SUFFICES ASSUME NEW i \in 1 .. m, \A j \in i + 1 .. m : j \in T PROVE i \in T
    BY DEF FromBehind
  <2> HIDE DEF m, la
  <2> QED
    BY <1>3
<1>5. T = 1 .. m
  <2>1. m \in Nat /\ T \in SUBSET (1 .. m)
    BY <1>1
  <2> HIDE DEF T, m
  <2> QED
    BY <1>4, <2>1, DownInd
<1> QED
  BY <1>5

-----------------------------------------------------------------------------
(* A separator is not found where its first character is not.              *)
LEMMA NotThere ==
  ASSUME NEW src \in Text, NEW sep \in Text, sep # <<>>,
         NEW p \in 1 .. Len(src), src[p] # sep[1]
  PROVE  ~Occurs(src, sep, p)
<1> SUFFICES ASSUME Occurs(src, sep, p) PROVE FALSE
  OBVIOUS
<1>1. Len(src) \in Nat /\ Len(sep) \in Nat /\ Len(sep) > 0
  BY DEF Text
<1> DEFINE n == p + Len(sep) - 1
<1>2. SubSeq(src, p, n) = sep /\ p <= n /\ n <= Len(src)
  BY <1>1 DEF Occurs
<1>3. SubSeq(src, p, n)[1] = src[p + 1 - 1]
  <2>1. p \in Int /\ n \in Int /\ \A k \in p .. n : src[k] \in Char
    BY <1>1, <1>2 DEF Text
  <2>2. 1 \in 1 .. n - p + 1
    BY <1>1, <1>2
  <2> HIDE DEF n
  <2> QED
    BY <2>1, <2>2, SubSeqProperties
<1>4. p + 1 - 1 = p
  OBVIOUS
<1> QED
  BY <1>2, <1>3, <1>4

(* A text without separators, alone and with a separator behind it.        *)
LEMMA SplitEmpty ==
  ASSUME NEW sep \in Text, sep # <<>>
  PROVE  split(<<>>, sep) = <<>>
<1>1. <<>> \in Text /\ Len(<<>>) = 0 /\ Len(sep) \in Nat /\ Len(sep) > 0
  BY DEF Text
<1>2. PICK F : Splitting(F, <<>>, sep) /\ split(<<>>, sep) = F[1]
  BY <1>1, SplitEquation
<1>3. F[1] = SplitFrom(<<>>, sep, F, 1)
  BY <1>1, <1>2 DEF Splitting
<1> QED
  BY <1>1, <1>2, <1>3 DEF SplitFrom

(* A text without the separator is one piece.                              *)
LEMMA SplitAlone ==
  ASSUME NEW a \in Text, a # <<>>, NEW sep \in Text, sep # <<>>, ~Contains(a, sep[1])
  PROVE  split(a, sep) = <<a>>
<1>1. Len(a) \in Nat /\ Len(a) > 0 /\ Len(sep) \in Nat /\ Len(sep) > 0
  BY DEF Text
<1>2. PICK F : Splitting(F, a, sep) /\ split(a, sep) = F[1]
  BY SplitEquation
<1>3. F[1] = SplitFrom(a, sep, F, 1)
  BY <1>1, <1>2 DEF Splitting
<1>4. \A p \in Nat : ~Occurs(a, sep, p)
  <2> SUFFICES ASSUME NEW p \in Nat, Occurs(a, sep, p) PROVE FALSE
    OBVIOUS
  <2>1. p \in 1 .. Len(a)
    BY <1>1 DEF Occurs
  <2> QED
    BY <2>1, NotThere DEF Contains
<1>5. find(a, sep, 1) = 0
  BY <1>4, FindFinds DEF IsFound
<1>6. SubSeq(a, 1, Len(a)) = a
  BY SubSeqFull DEF Text
<1> QED
  BY <1>1, <1>2, <1>3, <1>5, <1>6 DEF SplitFrom

(* The piece in front of a separator is the first one.                     *)
LEMMA SplitFirst ==
  ASSUME NEW a \in Text, a # <<>>, NEW sep \in Text, sep # <<>>, ~Contains(a, sep[1]),
         NEW b \in Text
  PROVE  split(a \o (sep \o b), sep) = <<a>> \o split(b, sep)
<1> DEFINE src == a \o (sep \o b)
           la == Len(a)
           ls == Len(sep)
<1>1. /\ la \in Nat /\ la > 0 /\ ls \in Nat /\ ls > 0 /\ Len(b) \in Nat
      /\ src \in Text /\ sep \o b \in Text /\ a \o sep \in Text
      /\ Len(src) = la + ls + Len(b) /\ Len(a \o sep) = la + ls
      /\ Len(sep \o b) = ls + Len(b)
  BY DEF Text
<1>2. src = (a \o sep) \o b
  BY ConcatAssociative DEF Text
<1>3. PICK F : Splitting(F, src, sep) /\ split(src, sep) = F[1]
  BY <1>1, SplitEquation
<1>4. PICK G : Splitting(G, b, sep) /\ split(b, sep) = G[1]
  BY SplitEquation
<1>5. F[(la + ls) + 1] = G[1]
  <2>1. 1 \in 1 .. Len(b) + Len(sep)
    BY <1>1
  <2>2. \A i \in 1 .. Len(b) + Len(sep) : F[Len(a \o sep) + i] = G[i]
    <3> DEFINE c == a \o sep
    <3>1. Splitting(F, c \o b, sep) /\ c \in Text
      BY <1>1, <1>2, <1>3
    <3> HIDE DEF c
    <3>2. \A i \in 1 .. Len(b) + Len(sep) : F[Len(c) + i] = G[i]
      BY <1>4, <3>1, SplitBehind
    <3> QED
      BY <3>2 DEF c
  <2> QED
    BY <1>1, <2>1, <2>2
<1>6. F[1] = SplitFrom(src, sep, F, 1)
  BY <1>1, <1>3 DEF Splitting
<1>7. Occurs(src, sep, la + 1)
  <2>1. SubSeq(src, la + 1, la + ls) = SubSeq(sep \o b, 1, ls)
    <3>1. 1 \in 1 .. Len(sep \o b) /\ ls \in 1 .. Len(sep \o b)
      BY <1>1
    <3> QED
      BY <1>1, <3>1, CutsBehind
  <2>2. SubSeq(sep \o b, 1, ls) = SubSeq(sep, 1, ls)
    <3>1. 1 \in 1 .. ls /\ ls \in 1 .. ls
      BY <1>1
    <3> QED
      BY <3>1, SubSeqOfConcat1 DEF Text
  <2>3. SubSeq(sep, 1, ls) = sep
    BY SubSeqFull DEF Text
  <2>4. la + 1 \in 1 .. Len(src) - ls + 1 /\ (la + 1) + ls - 1 = la + ls
    BY <1>1
  <2> HIDE DEF src, la
  <2> QED
    BY <2>1, <2>2, <2>3, <2>4 DEF Occurs
<1>8. ASSUME NEW p \in Nat, p >= 1, Occurs(src, sep, p) PROVE la + 1 <= p
  <2> SUFFICES ASSUME p <= la PROVE FALSE
    BY <1>1, <1>8
  <2>1. p \in 1 .. la /\ p \in 1 .. Len(src)
    BY <1>1, <1>8
  <2>2. src[p] = a[p]
    BY <2>1, <1>1, ConcatProperties DEF Text
  <2>3. src[p] # sep[1]
    BY <2>1, <2>2 DEF Contains
  <2> HIDE DEF src
  <2> QED
    BY <1>1, <1>8, <2>1, <2>3, NotThere
<1>9. IsFound(src, sep, 1, la + 1)
  <2>1. la + 1 \in Nat /\ la + 1 >= 1
    BY <1>1
  <2> HIDE DEF src, la
  <2> QED
    BY <1>7, <1>8, <2>1 DEF IsFound
<1>10. find(src, sep, 1) = la + 1
  <2>1. find(src, sep, 1) \in Nat /\ IsFound(src, sep, 1, find(src, sep, 1))
    BY <1>1, FindFinds
  <2>2. la + 1 \in Nat
    BY <1>1
  <2> HIDE DEF src, la
  <2> QED
    BY <1>9, <2>1, <2>2, FoundOnce
<1>11. SubSeq(src, 1, la) = a
  <2>1. 1 \in 1 .. la /\ la \in 1 .. la
    BY <1>1
  <2>2. SubSeq(src, 1, la) = SubSeq(a, 1, la)
    BY <1>1, <2>1, SubSeqOfConcat1 DEF Text
  <2> QED
    BY <2>2, SubSeqFull DEF Text
<1>12. SplitFrom(src, sep, F, 1) = <<a>> \o F[(la + ls) + 1]
  <2>1. ~(1 > Len(src)) /\ la + 1 # 0 /\ la + 1 # 1 /\ (la + 1) - 1 = la /\ (la + 1) + ls = (la + ls) + 1
    BY <1>1
  <2> HIDE DEF src, la
  <2> QED
    BY <1>10, <1>11, <2>1 DEF SplitFrom, ls
<1> QED
  BY <1>3, <1>4, <1>5, <1>6, <1>12

-----------------------------------------------------------------------------
(* Texts that are joined with separators are split into the same again.    *)
Sep == <<";", " ">>

Chunks(pairs) ==
  [i \in DOMAIN pairs |-> (IF i = 1 THEN <<>> ELSE Sep) \o pairs[i]]

Joins(text) == text # <<>> /\ ~Contains(text, ";")

(* Two in a row, ...                                                       *)
LEMMA TwoElements ==
  ASSUME NEW S, NEW a \in S, NEW b \in S
  PROVE  <<a, b>> \in Seq(S) /\ <<a, b>> # <<>> /\ <<a, b>>[1] = a
  OBVIOUS

(* ... which is one and one, ...                                           *)
LEMMA TwoJoined ==
  ASSUME NEW S, NEW a \in S, NEW b \in S
  PROVE  <<a>> \o <<b>> = <<a, b>>
<1> DEFINE s == <<a>> \o <<b>>
           t == <<a, b>>
<1>1. <<a>> \in Seq(S) /\ <<b>> \in Seq(S)
  BY OneElement
<1>2. s \in Seq(S) /\ Len(s) = 2 /\ s[1] = a /\ s[2] = b
  <2>1. Len(<<a>>) = 1 /\ Len(<<b>>) = 1 /\ <<a>>[1] = a /\ <<b>>[1] = b
    OBVIOUS
  <2> QED
    BY <1>1, <2>1, ConcatProperties
<1>3. t \in Seq(S) /\ Len(t) = 2 /\ t[1] = a /\ t[2] = b
  OBVIOUS
<1> HIDE DEF s, t
<1>4. \A i \in 1 .. 2 : s[i] = t[i]
  BY <1>2, <1>3
<1>5. s = t
  BY <1>2, <1>3, <1>4, SeqEqual
<1> QED
  BY <1>5 DEF s, t

(* ... and three texts put together.                                       *)
LEMMA TextsAssociative ==
  ASSUME NEW a \in Text, NEW b \in Text, NEW c \in Text
  PROVE  (a \o b) \o c = a \o (b \o c)
  BY ConcatAssociative DEF Text

(* The separator of cookies, as a text.                                    *)
LEMMA SepText == Sep \in Text /\ Sep # <<>> /\ Sep[1] = ";"
<1>1. ";" \in Char /\ " " \in Char
  BY DEF Char
<1> QED
  BY <1>1, TwoElements DEF Sep, Text

(* What is joined by a separator no part contains is split into its parts. *)
LEMMA SplitJoined ==
  ASSUME NEW pairs \in Seq(Text),
         \A i \in 1 .. Len(pairs) : Joins(pairs[i])
  PROVE  split(FlattenSeq(Chunks(pairs)), Sep) = pairs
<1> DEFINE n == Len(pairs)
           chunks == Chunks(pairs)
           Rest(i) == FlattenSeq(SubSeq(chunks, i, n))
           T == {i \in 1 .. n : split(pairs[i] \o Rest(i + 1), Sep) = SubSeq(pairs, i, n)}
<1>1. n \in Nat /\ DOMAIN pairs = 1 .. n /\ \A i \in 1 .. n : pairs[i] \in Text
  OBVIOUS
<1>2. \A i \in 1 .. n : Sep \o pairs[i] \in Text /\ <<>> \o pairs[i] = pairs[i]
  BY <1>1, SepText, ConcatProperties, ConcatEmptySeq DEF Text
<1>3. /\ chunks \in Seq(Text) /\ Len(chunks) = n
      /\ n > 0 => chunks[1] = pairs[1]
      /\ \A i \in 1 .. n : i # 1 => chunks[i] = Sep \o pairs[i]
  <2>1. chunks = [i \in 1 .. n |-> (IF i = 1 THEN <<>> ELSE Sep) \o pairs[i]]
    BY <1>1 DEF Chunks
  <2>2. \A i \in 1 .. n : chunks[i] = (IF i = 1 THEN <<>> ELSE Sep) \o pairs[i]
    BY <2>1
  <2> HIDE DEF chunks, n
  <2>3. \A i \in 1 .. n : /\ i # 1 => chunks[i] = Sep \o pairs[i]
                          /\ i = 1 => chunks[i] = pairs[i]
    BY <1>2, <2>2
  <2>4. \A i \in 1 .. n : chunks[i] \in Text
    BY <1>1, <1>2, <2>3
  <2>5. chunks \in [1 .. n -> Text]
    BY <2>1, <2>4
  <2> DEFINE V == Text
  <2>6. chunks \in [1 .. n -> V] /\ n \in Nat
    BY <1>1, <2>5
  <2> HIDE DEF V
  <2>7. chunks \in Seq(V) /\ Len(chunks) = n
    BY <2>6
  <2>8. n > 0 => 1 \in 1 .. n
    BY <1>1
  <2> QED
    BY <2>3, <2>7, <2>8 DEF V
<1> HIDE DEF chunks
<1>4. ASSUME NEW i \in 1 .. n
      PROVE  Rest(i) = chunks[i] \o Rest(i + 1) /\ Rest(i + 1) \in Text
  BY <1>3, FlattenRest DEF Text
<1>5. Rest(n + 1) = <<>>
  BY <1>1, FlattenEnd
<1>6. ASSUME NEW i \in 1 .. n, i < n => i + 1 \in T
      PROVE  split(pairs[i] \o Rest(i + 1), Sep) = SubSeq(pairs, i, n)
  <2>1. SubSeq(pairs, i, n) = <<pairs[i]>> \o SubSeq(pairs, i + 1, n)
    <3>1. i \in 1 .. Len(pairs) /\ n \in i .. Len(pairs)
      BY <1>1
    <3> QED
      BY <3>1, SubSeqRecursiveFirst
  <2>2. pairs[i] \in Text /\ pairs[i] # <<>> /\ ~Contains(pairs[i], Sep[1])
    BY <1>1, SepText DEF Joins
  <2>3. CASE i = n
    <3>1. pairs[i] \o Rest(i + 1) = pairs[i]
      <4>1. pairs[i] \o <<>> = pairs[i]
        BY <2>2 DEF Text
      <4> QED
        BY <1>5, <2>3, <4>1
    <3>2. split(pairs[i], Sep) = <<pairs[i]>>
      BY <2>2, SepText, SplitAlone
    <3>3. SubSeq(pairs, i + 1, n) = <<>>
      BY <1>1, <2>3, SubSeqEmpty
    <3>4. <<pairs[i]>> \o <<>> = <<pairs[i]>>
      BY <2>2, OneElement
    <3> HIDE DEF Rest
    <3> QED
      BY <2>1, <3>1, <3>2, <3>3, <3>4
  <2>4. CASE i # n
    <3> DEFINE next == pairs[i + 1] \o Rest((i + 1) + 1)
    <3>1. i + 1 \in 1 .. n /\ i + 1 # 1 /\ i + 1 \in T
      <4>1. i < n
        <5>1. n \in Nat
          BY <1>1
        <5> HIDE DEF n
        <5> QED
          BY <2>4, <5>1
      <4> HIDE DEF T
      <4> QED
        BY <1>1, <1>6, <4>1
    <3>2. chunks[i + 1] = Sep \o pairs[i + 1] /\ pairs[i + 1] \in Text
      BY <1>1, <1>3, <3>1
    <3>3. Rest(i + 1) = chunks[i + 1] \o Rest((i + 1) + 1) /\ Rest((i + 1) + 1) \in Text
      BY <1>4, <3>1
    <3> HIDE DEF Rest
    <3>4. Rest(i + 1) = Sep \o next
      <4> DEFINE a == pairs[i + 1]
                 b == Rest((i + 1) + 1)
      <4>1. a \in Text /\ b \in Text
        BY <3>2, <3>3
      <4> HIDE DEF a, b
      <4>2. (Sep \o a) \o b = Sep \o (a \o b)
        BY <4>1, SepText, TextsAssociative
      <4> QED
        BY <3>2, <3>3, <4>2 DEF a, b
    <3>5. next \in Text
      BY <3>2, <3>3 DEF Text
    <3> HIDE DEF next
    <3>6. split(pairs[i] \o (Sep \o next), Sep) = <<pairs[i]>> \o split(next, Sep)
      BY <2>2, <3>5, SepText, SplitFirst
    <3>7. split(next, Sep) = SubSeq(pairs, i + 1, n)
      BY <3>1 DEF next
    <3> QED
      BY <2>1, <3>4, <3>6, <3>7
  <2> QED
    BY <2>3, <2>4
<1>7. FromBehind(T, n)
  <2> SUFFICES ASSUME NEW i \in 1 .. n, \A j \in i + 1 .. n : j \in T PROVE i \in T
    BY DEF FromBehind
  <2>1. i < n => i + 1 \in i + 1 .. n
    BY <1>1
  <2>2. i < n => i + 1 \in T
    BY <2>1
  <2>3. split(pairs[i] \o Rest(i + 1), Sep) = SubSeq(pairs, i, n)
    BY <1>6, <2>2
  <2> HIDE DEF Rest, n
  <2> QED
    BY <2>3
<1>8. T = 1 .. n
  <2>1. n \in Nat /\ T \in SUBSET (1 .. n)
    BY <1>1
  <2> HIDE DEF T, n
  <2> QED
    BY <1>7, <2>1, DownInd
<1>9. FlattenSeq(chunks) = Rest(1)
  BY <1>3, SubSeqFull
<1>10. CASE n = 0
  <2>1. Rest(1) = <<>>
    BY <1>5, <1>10
  <2>2. pairs = <<>>
    BY <1>10
  <2> HIDE DEF Rest
  <2> QED
    BY <1>9, <2>1, <2>2, SepText, SplitEmpty DEF chunks
<1>11. CASE n # 0
  <2>1. 1 \in 1 .. n /\ n > 0
    BY <1>1, <1>11
  <2>2. Rest(1) = pairs[1] \o Rest(1 + 1)
    BY <1>3, <1>4, <2>1
  <2>3. 1 \in T
    <3> HIDE DEF T
    <3> QED
      BY <1>8, <2>1
  <2>4. SubSeq(pairs, 1, n) = pairs
    BY SubSeqFull
  <2> HIDE DEF Rest, n
  <2> QED
    BY <1>9, <2>2, <2>3, <2>4 DEF chunks
<1> QED
  BY <1>10, <1>11

-----------------------------------------------------------------------------
(* A cookie by itself splits into its name and what its value splits into. *)
LEMMA SplitType ==
  ASSUME NEW src \in Text, NEW sep \in Text, sep # <<>>
  PROVE  split(src, sep) \in Seq(Text)
<1>1. PICK From : Splitting(From, src, sep) /\ split(src, sep) = From[1]
  BY SplitEquation
<1>2. 1 \in 1 .. Len(src) + Len(sep)
  BY DEF Text
<1> QED
  BY <1>1, <1>2 DEF Splitting

(* The separator of a name and its value, as a text.                       *)
LEMMA EqualsText == <<"=">> \in Text /\ <<"=">> # <<>> /\ <<"=">>[1] = "="
  BY CharTexts DEF Char

Sound(cookie) ==
  /\ cookie.name \in Text /\ cookie.value \in Text /\ cookie.name # <<>>
  /\ ~Contains(cookie.name, "=") /\ ~Contains(cookie.name, ";")
  /\ ~Contains(cookie.value, ";")

(* Only a cookie of that name answers to a key, and one does whose value   *)
(* is neither empty nor has the separator in it.                           *)
LEMMA PairSplits ==
  ASSUME NEW cookie, Sound(cookie), NEW key
  PROVE  /\ IsKey(Pair(cookie), key) => cookie.name = key
         /\ cookie.value # <<>> /\ ~Contains(cookie.value, "=") =>
              /\ Splits(Pair(cookie)) = <<cookie.name, cookie.value>>
              /\ cookie.name = key => IsKey(Pair(cookie), key)
<1> DEFINE a == cookie.name
           b == cookie.value
           sign == <<"=">>
<1>1. /\ a \in Text /\ b \in Text /\ a # <<>> /\ ~Contains(a, sign[1])
      /\ sign \in Text /\ sign # <<>> /\ sign[1] = "="
  BY EqualsText DEF Sound
<1>2. Pair(cookie) = (a \o sign) \o b
  BY DEF Pair
<1>3. split(b, sign) \in Seq(Text)
  BY <1>1, SplitType
<1> HIDE DEF a, b, sign
<1>4. (a \o sign) \o b = a \o (sign \o b)
  BY <1>1, ConcatAssociative DEF Text
<1>5. Splits(Pair(cookie)) = <<a>> \o split(b, sign)
  <2>1. split(a \o (sign \o b), sign) = <<a>> \o split(b, sign)
    BY <1>1, SplitFirst
  <2> QED
    BY <1>2, <1>4, <2>1 DEF Splits, sign
<1>6. (<<a>> \o split(b, sign))[1] = a
  BY <1>1, <1>3
<1>7. b # <<>> /\ ~Contains(b, "=") => Splits(Pair(cookie)) = <<a, b>>
  <2> SUFFICES ASSUME b # <<>>, ~Contains(b, "=") PROVE Splits(Pair(cookie)) = <<a, b>>
    OBVIOUS
  <2>1. split(b, sign) = <<b>>
    BY <1>1, SplitAlone
  <2>2. <<a>> \o <<b>> = <<a, b>>
    BY <1>1, TwoJoined
  <2> QED
    BY <1>5, <2>1, <2>2
<1> QED
  BY <1>5, <1>6, <1>7 DEF IsKey, a, b

(* A cookie is a text without the separator of cookies.                    *)
LEMMA PairText ==
  ASSUME NEW cookie, Sound(cookie)
  PROVE  Pair(cookie) \in Text /\ Joins(Pair(cookie))
<1> DEFINE a == cookie.name
           b == cookie.value
           sign == <<"=">>
           pair == (a \o sign) \o b
<1>1. a \in Text /\ b \in Text /\ sign \in Text /\ a # <<>>
  BY EqualsText DEF Sound
<1>2. ~Contains(a, ";") /\ ~Contains(b, ";") /\ ~Contains(sign, ";")
  <2>1. sign[1] # ";"
    OBVIOUS
  <2>2. ~Contains(sign, ";")
    <3>1. ASSUME NEW i \in 1 .. Len(sign) PROVE sign[i] # ";"
      <4>1. Len(sign) = 1
        OBVIOUS
      <4> HIDE DEF sign
      <4>2. i = 1
        BY <4>1
      <4> QED
        BY <2>1, <4>2
    <3> HIDE DEF sign
    <3> QED
      BY <3>1 DEF Contains
  <2> QED
    BY <2>2 DEF Sound
<1> HIDE DEF a, b, sign
<1>3. /\ pair \in Text /\ Len(pair) = Len(a) + Len(sign) + Len(b)
      /\ \A i \in 1 .. Len(pair) : \/ i \in 1 .. Len(a) /\ pair[i] = a[i]
                                   \/ /\ i - Len(a) \in 1 .. Len(sign)
                                      /\ pair[i] = sign[i - Len(a)]
                                   \/ /\ i - (Len(a) + Len(sign)) \in 1 .. Len(b)
                                      /\ pair[i] = b[i - (Len(a) + Len(sign))]
  BY <1>1 DEF Text
<1>4. Len(a) > 0 /\ Len(sign) \in Nat /\ Len(b) \in Nat /\ Len(a) \in Nat
  BY <1>1 DEF Text
<1> HIDE DEF pair
<1>5. ~Contains(pair, ";")
  BY <1>2, <1>3 DEF Contains
<1>6. pair # <<>>
  <2>1. Len(pair) # 0 /\ Len(<<>>) = 0
    BY <1>3, <1>4
  <2> QED
    BY <2>1
<1> QED
  BY <1>3, <1>5, <1>6 DEF Joins, pair, Pair, a, b, sign

-----------------------------------------------------------------------------
(* The header splits into the cookies again.                               *)
LEMMA HeaderSplits ==
  ASSUME NEW cookies, NEW n \in Nat, DOMAIN cookies = 1 .. n,
         \A i \in 1 .. n : Sound(cookies[i])
  PROVE  split(Header(cookies), Sep) = [i \in 1 .. n |-> Pair(cookies[i])]
<1> DEFINE pairs == [i \in 1 .. n |-> Pair(cookies[i])]
<1>1. \A i \in 1 .. n : pairs[i] \in Text /\ Joins(pairs[i])
  BY PairText
<1>2. pairs \in Seq(Text) /\ Len(pairs) = n /\ DOMAIN pairs = 1 .. n
  <2> DEFINE V == Text
  <2>1. pairs \in [1 .. n -> V]
    <3> HIDE DEF V
    <3>1. \A i \in 1 .. n : Pair(cookies[i]) \in V
      BY <1>1 DEF V
    <3> QED
      BY <3>1
  <2> HIDE DEF pairs, V
  <2>2. pairs \in Seq(V) /\ Len(pairs) = n /\ DOMAIN pairs = 1 .. n
    BY <2>1
  <2> QED
    BY <2>2 DEF V
<1>3. Header(cookies) = FlattenSeq(Chunks(pairs))
  <2>1. \A i \in 1 .. n : pairs[i] = Pair(cookies[i])
    OBVIOUS
  <2> HIDE DEF pairs
  <2> QED
    BY <1>2, <2>1 DEF Header, Chunks, Sep
<1> HIDE DEF pairs
<1>4. split(FlattenSeq(Chunks(pairs)), Sep) = pairs
  BY <1>1, <1>2, SplitJoined
<1> QED
  BY <1>3, <1>4 DEF pairs

(* The least of a set of places.                                           *)
LEMMA MinIs ==
  ASSUME NEW S \in SUBSET Nat, NEW j \in S, \A i \in S : j <= i
  PROVE  Min(S) = j
<1>1. Min(S) \in S /\ \A i \in S : Min(S) <= i
  BY DEF Min
<1>2. Min(S) \in Nat /\ j \in Nat
  BY <1>1
<1>3. Min(S) <= j /\ j <= Min(S)
  BY <1>1
<1> QED
  BY <1>2, <1>3

(* What the lookup returns for the header of some cookies.                 *)
LEMMA LookupFinds ==
  ASSUME NEW cookies, NEW n \in Nat, DOMAIN cookies = 1 .. n,
         \A i \in 1 .. n : Sound(cookies[i]), NEW key
  PROVE  LET named == Named(cookies, key)
             found == GetCookieValueByKey(Header(cookies), key)
         IN  /\ named = {} => found = NotFound
             /\ named # {} =>
                  LET value == cookies[Min(named)].value
                  IN  value = <<>> \/ Contains(value, "=") \/ found = value
<1> DEFINE named == Named(cookies, key)
           pairs == [i \in 1 .. n |-> Pair(cookies[i])]
           Keyed == {i \in DOMAIN pairs : IsKey(pairs[i], key)}
           found == GetCookieValueByKey(Header(cookies), key)
<1>1. found = IF Keyed = {} THEN NotFound ELSE Splits(pairs[Min(Keyed)])[2]
  <2>1. split(Header(cookies), Sep) = pairs
    BY HeaderSplits
  <2>2. found = FirstValue(pairs, key)
    <3> HIDE DEF pairs
    <3> QED
      BY <2>1 DEF GetCookieValueByKey, Sep
  <2> HIDE DEF pairs
  <2> QED
    BY <2>2 DEF FirstValue
<1>2. \A i \in 1 .. n : pairs[i] = Pair(cookies[i]) /\ DOMAIN pairs = 1 .. n
  OBVIOUS
<1>3. Keyed \subseteq 1 .. n /\ \A i \in 1 .. n : i \in Keyed <=> IsKey(Pair(cookies[i]), key)
  BY <1>2
<1>4. named \subseteq 1 .. n /\ \A i \in 1 .. n : i \in named <=> cookies[i].name = key
  BY DEF Named
<1> HIDE DEF Keyed, named, found, pairs
<1>5. Keyed \subseteq named
  BY <1>3, <1>4, PairSplits
<1>6. ASSUME named = {} PROVE found = NotFound
  BY <1>1, <1>5, <1>6
<1>7. ASSUME named # {}, cookies[Min(named)].value # <<>>,
             ~Contains(cookies[Min(named)].value, "=")
      PROVE  found = cookies[Min(named)].value
  <2>1. named \in SUBSET Nat
    BY <1>4
  <2>2. PICK j \in named : \A i \in named : j <= i
    BY <1>7, <2>1, Least
  <2>3. Min(named) = j
    BY <2>1, <2>2, MinIs
  <2>4. j \in 1 .. n /\ cookies[j].name = key /\ Sound(cookies[j])
    BY <1>4, <2>2
  <2>5. /\ Splits(Pair(cookies[j])) = <<cookies[j].name, cookies[j].value>>
        /\ IsKey(Pair(cookies[j]), key)
    BY <1>7, <2>3, <2>4, PairSplits
  <2>6. j \in Keyed
    BY <1>3, <2>4, <2>5
  <2>7. Min(Keyed) = j
    <3>1. Keyed \in SUBSET Nat /\ \A i \in Keyed : j <= i
      BY <1>5, <2>1, <2>2
    <3> QED
      BY <2>6, <3>1, MinIs
  <2>8. Splits(pairs[j])[2] = cookies[j].value
    BY <1>2, <2>4, <2>5
  <2> QED
    BY <1>1, <2>3, <2>6, <2>7, <2>8
<1> QED
  BY <1>6, <1>7 DEF named, found

-----------------------------------------------------------------------------
(* The separator of paths, as a text.                                      *)
Slash == <<"/">>

(* It is a text of one character.                                          *)
LEMMA SlashText == Slash \in Text /\ Slash # <<>> /\ Slash[1] = "/" /\ Len(Slash) = 1
  BY CharTexts DEF Slash, Char

(* It occurs where it stands, ...                                          *)
LEMMA OccursSlash ==
  ASSUME NEW src \in Text, NEW p \in Nat
  PROVE  Occurs(src, Slash, p) <=> p \in 1 .. Len(src) /\ src[p] = "/"
<1>1. Len(src) \in Nat /\ Len(Slash) = 1 /\ Slash \in Text
  BY SlashText DEF Text
<1>2. p + Len(Slash) - 1 = p /\ Len(src) - Len(Slash) + 1 = Len(src)
  BY <1>1
<1>3. ASSUME p \in 1 .. Len(src) PROVE SubSeq(src, p, p) = Slash <=> src[p] = "/"
  <2>1. p \in Int /\ \A i \in p .. p : src[i] \in Char
    BY <1>3 DEF Text
  <2>2. SubSeq(src, p, p) \in Seq(Char) /\ Len(SubSeq(src, p, p)) = p - p + 1
    BY <2>1, SubSeqProperties
  <2>3. SubSeq(src, p, p)[1] = src[p + 1 - 1]
    <3>1. 1 \in 1 .. p - p + 1
      BY <2>1
    <3> QED
      BY <2>1, <3>1, SubSeqProperties
  <2>4. p - p + 1 = 1 /\ p + 1 - 1 = p
    BY <2>1
  <2>5. SubSeq(src, p, p)[1] = src[p] /\ Len(SubSeq(src, p, p)) = 1
    BY <2>2, <2>3, <2>4
  <2> DEFINE cut == SubSeq(src, p, p)
  <2>6. cut \in Seq(Char) /\ Len(cut) = 1 /\ cut[1] = src[p]
    BY <2>2, <2>5
  <2> HIDE DEF cut
  <2>7. ASSUME src[p] = "/" PROVE cut = Slash
    <3>1. \A i \in 1 .. Len(cut) : cut[i] = Slash[i]
      BY <2>6, <2>7, SlashText
    <3>2. Slash \in Seq(Char) /\ Len(cut) = Len(Slash)
      BY <1>1, <2>6 DEF Text
    <3> QED
      BY <2>6, <3>1, <3>2, SeqEqual
  <2>8. ASSUME cut = Slash PROVE src[p] = "/"
    BY <2>6, <2>8, SlashText
  <2> QED
    BY <2>7, <2>8 DEF cut
<1> QED
  BY <1>2, <1>3 DEF Occurs

(* ... and is found there, whatever is in front.                           *)
LEMMA FindSlash ==
  ASSUME NEW a \in Text, NEW b \in Text, NEW i \in 1 .. Len(a) + 1
  PROVE  find(a \o (Slash \o b), Slash, i)
           = IF find(a, Slash, i) = 0 THEN Len(a) + 1 ELSE find(a, Slash, i)
<1> DEFINE src == a \o (Slash \o b)
           la == Len(a)
           pos == find(a, Slash, i)
           there == IF pos = 0 THEN la + 1 ELSE pos
<1>1. la \in Nat /\ Len(b) \in Nat /\ Slash \in Text /\ i \in Nat /\ i > 0
  BY SlashText DEF Text
<1>2. /\ src \in Text /\ Len(src) = la + 1 + Len(b)
      /\ src[la + 1] = "/" /\ \A j \in 1 .. la : src[j] = a[j]
  <2> DEFINE r == Slash \o b
  <2>1. r \in Text /\ Len(r) = 1 + Len(b) /\ r[1] = "/"
    <3>1. 1 \in 1 .. Len(Slash) + Len(b) /\ 1 <= Len(Slash)
      BY <1>1, SlashText
    <3> QED
      BY <3>1, SlashText, ConcatProperties DEF Text
  <2> HIDE DEF r
  <2>2. a \o r \in Text /\ Len(a \o r) = la + (1 + Len(b))
    <3>1. a \o r \in Text /\ Len(a \o r) = Len(a) + Len(r)
      BY <2>1, ConcatProperties DEF Text
    <3> QED
      BY <2>1, <3>1
  <2>3. (a \o r)[la + 1] = r[1]
    <3>1. la + 1 \in 1 .. Len(a) + Len(r) /\ ~(la + 1 <= Len(a)) /\ (la + 1) - Len(a) = 1
      BY <1>1, <2>1
    <3> QED
      BY <2>1, <3>1, ConcatProperties DEF Text
  <2>4. \A j \in 1 .. la : (a \o r)[j] = a[j]
    <3>1. \A j \in 1 .. la : j \in 1 .. Len(a) + Len(r) /\ j <= Len(a)
      BY <1>1, <2>1
    <3> QED
      BY <2>1, <3>1, ConcatProperties DEF Text
  <2>5. la + (1 + Len(b)) = la + 1 + Len(b)
    BY <1>1
  <2> QED
    BY <2>1, <2>2, <2>3, <2>4, <2>5 DEF r
<1> HIDE DEF src
<1>3. \A p \in Nat : Occurs(src, Slash, p) <=> p \in 1 .. la + 1 + Len(b) /\ src[p] = "/"
  BY <1>2, OccursSlash
<1>4. \A p \in Nat : Occurs(a, Slash, p) <=> p \in 1 .. la /\ a[p] = "/"
  BY OccursSlash
<1>5. pos \in Nat /\ IsFound(a, Slash, i, pos)
  BY <1>1, FindFinds
<1>6. la + 1 \in Nat /\ la + 1 >= i /\ Occurs(src, Slash, la + 1)
  BY <1>1, <1>2, <1>3
<1>7. ASSUME NEW p \in Nat, p <= la PROVE Occurs(src, Slash, p) <=> Occurs(a, Slash, p)
  BY <1>1, <1>2, <1>3, <1>4, <1>7
<1>8. CASE pos = 0
  <2>1. ~ \E p \in Nat : p >= i /\ Occurs(a, Slash, p)
    BY <1>1, <1>5, <1>8 DEF IsFound
  <2>2. \A p \in Nat : p >= i /\ Occurs(src, Slash, p) => la + 1 <= p
    BY <1>1, <1>7, <2>1
  <2>3. IsFound(src, Slash, i, la + 1)
    BY <1>6, <2>2 DEF IsFound
  <2>4. find(src, Slash, i) = la + 1
    <3>1. find(src, Slash, i) \in Nat /\ IsFound(src, Slash, i, find(src, Slash, i))
      BY <1>1, <1>2, FindFinds
    <3> HIDE DEF la
    <3> QED
      BY <1>6, <2>3, <3>1, FoundOnce
  <2> QED
    BY <1>8, <2>4 DEF src
<1>9. CASE pos # 0
  <2>1. pos >= i /\ Occurs(a, Slash, pos) /\ \A p \in Nat : p >= i /\ Occurs(a, Slash, p) => pos <= p
    BY <1>5, <1>9 DEF IsFound
  <2>2. pos <= la
    BY <1>4, <1>5, <2>1
  <2>3. Occurs(src, Slash, pos)
    BY <1>5, <1>7, <2>1, <2>2
  <2>4. \A p \in Nat : p >= i /\ Occurs(src, Slash, p) => pos <= p
    <3> SUFFICES ASSUME NEW p \in Nat, p >= i, Occurs(src, Slash, p) PROVE pos <= p
      OBVIOUS
    <3> HIDE DEF pos
    <3>1. CASE p <= la
      BY <1>7, <2>1, <3>1
    <3>2. CASE ~(p <= la)
      BY <1>1, <1>5, <2>2, <3>2
    <3> QED
      BY <3>1, <3>2
  <2>5. IsFound(src, Slash, i, pos)
    BY <1>5, <2>1, <2>3, <2>4 DEF IsFound
  <2>6. find(src, Slash, i) = pos
    <3> HIDE DEF pos
    <3> QED
      BY <1>1, <1>2, <1>5, <2>5, FindFinds, FoundOnce
  <2> QED
    BY <1>9, <2>6 DEF src
<1> QED
  BY <1>8, <1>9

(* Around it a text is split into the names on either side.                *)
LEMMA SplitConcat ==
  ASSUME NEW a \in Text, NEW b \in Text
  PROVE  split(a \o (Slash \o b), Slash) = split(a, Slash) \o split(b, Slash)
<1> DEFINE src == a \o (Slash \o b)
           c == a \o Slash
           la == Len(a)
<1>1. /\ la \in Nat /\ Len(b) \in Nat /\ Slash \in Text /\ Slash # <<>> /\ Len(Slash) = 1
      /\ Slash \o b \in Text /\ Len(Slash \o b) = 1 + Len(b)
      /\ src \in Text /\ Len(src) = la + (1 + Len(b))
      /\ c \in Text /\ Len(c) = la + 1
  <2>1. Slash \in Text /\ Slash # <<>> /\ Len(Slash) = 1
    BY SlashText
  <2> HIDE DEF src, c
  <2>2. Slash \o b \in Text /\ Len(Slash \o b) = 1 + Len(b)
    BY <2>1, ConcatProperties DEF Text
  <2>3. src \in Text /\ Len(src) = la + (1 + Len(b))
    BY <2>2, ConcatProperties DEF Text, src
  <2>4. c \in Text /\ Len(c) = la + 1
    <3>1. a \o Slash \in Text /\ Len(a \o Slash) = Len(a) + Len(Slash)
      BY <2>1, ConcatProperties DEF Text
    <3> QED
      BY <2>1, <3>1 DEF c
  <2>5. la \in Nat /\ Len(b) \in Nat
    BY DEF Text
  <2> QED
    BY <2>1, <2>2, <2>3, <2>4, <2>5
<1>2. src = c \o b
  BY <1>1, ConcatAssociative DEF Text
<1>3. PICK F : Splitting(F, src, Slash) /\ split(src, Slash) = F[1]
  BY <1>1, SplitEquation
<1>4. PICK G : Splitting(G, a, Slash) /\ split(a, Slash) = G[1]
  BY <1>1, SplitEquation
<1>5. PICK H : Splitting(H, b, Slash) /\ split(b, Slash) = H[1]
  BY <1>1, SplitEquation
<1> HIDE DEF src, c
<1>6. F[la + 2] = H[1]
  <2>1. Splitting(F, c \o b, Slash)
    BY <1>2, <1>3
  <2>2. \A i \in 1 .. Len(b) + Len(Slash) : F[Len(c) + i] = H[i]
    BY <1>1, <1>5, <2>1, SplitBehind
  <2>3. 1 \in 1 .. Len(b) + Len(Slash) /\ Len(c) + 1 = la + 2
    BY <1>1
  <2> QED
    BY <2>2, <2>3
<1> DEFINE h == F[la + 2]
           m == la + 1
           T == {i \in 1 .. m : F[i] = G[i] \o h}
<1>7. /\ h \in Seq(Text)
      /\ \A i \in 1 .. m : G[i] \in Seq(Text)
      /\ \A i \in 1 .. m : G[i] = SplitFrom(a, Slash, G, i)
      /\ \A i \in 1 .. m : F[i] = SplitFrom(src, Slash, F, i)
  <2>1. 1 \in 1 .. Len(b) + Len(Slash)
    BY <1>1
  <2>2. \A i \in 1 .. m : i \in 1 .. Len(a) + Len(Slash) /\ i \in 1 .. Len(src) + Len(Slash)
    BY <1>1
  <2> HIDE DEF m
  <2>3. h \in Seq(Text)
    BY <1>5, <1>6, <2>1 DEF Splitting
  <2>4. \A i \in 1 .. m : G[i] \in Seq(Text)
    BY <1>4, <2>2 DEF Splitting
  <2>5. \A i \in 1 .. m : G[i] = SplitFrom(a, Slash, G, i)
    BY <1>4, <2>2 DEF Splitting
  <2>6. \A i \in 1 .. m : F[i] = SplitFrom(src, Slash, F, i)
    BY <1>3, <2>2 DEF Splitting
  <2> QED
    BY <2>3, <2>4, <2>5, <2>6
<1> HIDE DEF h
<1>8. ASSUME NEW i \in 1 .. m, \A j \in i + 1 .. m : F[j] = G[j] \o h
      PROVE  F[i] = G[i] \o h
  <2> DEFINE pos == find(a, Slash, i)
             there == find(src, Slash, i)
  <2>1. there = IF pos = 0 THEN la + 1 ELSE pos
    <3>1. i \in 1 .. Len(a) + 1
      OBVIOUS
    <3> QED
      BY <3>1, FindSlash DEF src
  <2>2. ~(i > Len(src)) /\ i <= la + 1 /\ i \in Nat
    BY <1>1
  <2>3. <<>> \o h = h
    BY <1>7, ConcatEmptySeq
  <2>4. F[i] = IF there = 0 THEN <<SubSeq(src, i, Len(src))>>
               ELSE IF there = i THEN F[i + 1]
               ELSE <<SubSeq(src, i, there - 1)>> \o F[there + 1]
    BY <1>1, <1>7, <2>2 DEF SplitFrom
  <2>5. G[i] = IF i > la THEN <<>>
               ELSE IF pos = 0 THEN <<SubSeq(a, i, la)>>
               ELSE IF pos = i THEN G[i + 1]
               ELSE <<SubSeq(a, i, pos - 1)>> \o G[pos + 1]
    BY <1>1, <1>7 DEF SplitFrom
  <2>6. i > la => pos = 0
    <3> SUFFICES ASSUME i > la, pos # 0 PROVE FALSE
      OBVIOUS
    <3>1. pos \in Nat /\ IsFound(a, Slash, i, pos)
      BY <1>1, <2>2, FindFinds
    <3>2. pos >= i /\ Occurs(a, Slash, pos)
      BY <3>1 DEF IsFound
    <3>3. pos \in 1 .. la
      BY <3>1, <3>2, OccursSlash
    <3> HIDE DEF pos
    <3> QED
      BY <1>1, <2>2, <3>2, <3>3
  <2>7. ASSUME pos # 0 PROVE pos \in i .. la /\ pos + 1 \in i + 1 .. m
    <3>1. i \in 1 .. Len(a) + Len(Slash) /\ ~(i > Len(a))
      BY <1>1, <2>2, <2>6, <2>7
    <3> QED
      BY <1>1, <2>7, <3>1, SplitPlaces
  <2>8. ASSUME NEW j \in i .. la PROVE SubSeq(src, i, j) = SubSeq(a, i, j)
    <3>1. i \in 1 .. Len(a) /\ j \in 1 .. Len(a)
      BY <1>1, <2>2
    <3> QED
      BY <1>1, <3>1, SubSeqOfConcat1 DEF src, Text
  <2> HIDE DEF pos, there
  <2>9. CASE i > la
    <3>1. there = la + 1 /\ la + 1 = i /\ there # 0 /\ i + 1 = la + 2
      BY <1>1, <2>1, <2>2, <2>6, <2>9
    <3> QED
      BY <2>3, <2>4, <2>5, <2>9, <3>1 DEF h
  <2>10. CASE ~(i > la) /\ pos = 0
    <3>1. /\ there = la + 1 /\ there # 0 /\ there # i /\ there - 1 = la
          /\ there + 1 = la + 2 /\ la \in i .. la
      BY <1>1, <2>1, <2>2, <2>10
    <3> QED
      BY <2>4, <2>5, <2>8, <2>10, <3>1 DEF h
  <2>11. CASE ~(i > la) /\ pos = i
    <3>1. there = i /\ i # 0 /\ i + 1 \in i + 1 .. m
      BY <2>1, <2>2, <2>7, <2>11
    <3> QED
      BY <1>8, <2>4, <2>5, <2>11, <3>1
  <2>12. CASE ~(i > la) /\ pos # 0 /\ pos # i
    <3>1. pos - 1 \in i .. la /\ pos + 1 \in i + 1 .. m /\ pos \in Nat
      BY <1>1, <2>2, <2>7, <2>12
    <3>2. F[i] = <<SubSeq(a, i, pos - 1)>> \o (G[pos + 1] \o h)
      BY <1>8, <2>1, <2>4, <2>8, <2>12, <3>1
    <3>3. G[i] = <<SubSeq(a, i, pos - 1)>> \o G[pos + 1]
      BY <2>5, <2>12
    <3> DEFINE x == <<SubSeq(a, i, pos - 1)>>
               y == G[pos + 1]
    <3>4. x \in Seq(Text) /\ y \in Seq(Text)
      <4>1. pos - 1 \in Int /\ pos - 1 <= Len(a) /\ i \in Nat /\ i > 0
        BY <1>1, <2>2, <3>1
      <4>2. SubSeq(a, i, pos - 1) \in Text
        BY <4>1, Cuts
      <4>3. pos + 1 \in 1 .. m
        BY <1>1, <2>2, <3>1
      <4>4. y \in Seq(Text)
        BY <1>7, <4>3
      <4> QED
        BY <4>2, <4>4, OneElement
    <3> HIDE DEF x, y
    <3>5. (x \o y) \o h = x \o (y \o h)
      BY <1>7, <3>4, ConcatAssociative
    <3> QED
      BY <3>2, <3>3, <3>5 DEF x, y
  <2> QED
    BY <2>9, <2>10, <2>11, <2>12
<1>9. FromBehind(T, m)
  <2> SUFFICES ASSUME NEW i \in 1 .. m, \A j \in i + 1 .. m : j \in T PROVE i \in T
    BY DEF FromBehind
  <2> HIDE DEF m
  <2> QED
    BY <1>8
<1>10. T = 1 .. m
  <2>1. m \in Nat /\ T \in SUBSET (1 .. m)
    BY <1>1
  <2> HIDE DEF T, m
  <2> QED
    BY <1>9, <2>1, DownInd
<1>11. F[1] = G[1] \o h
  <2>1. 1 \in 1 .. m
    BY <1>1
  <2> HIDE DEF m
  <2> QED
    BY <1>10, <2>1
<1> QED
  BY <1>3, <1>4, <1>5, <1>6, <1>11 DEF src, h

-----------------------------------------------------------------------------
(* The names of a path.                                                    *)
LEMMA NamesTypes == \A path \in Text : Names(path) \in Seq(Text)
<1> SUFFICES ASSUME NEW path \in Text PROVE Names(path) \in Seq(Text)
  OBVIOUS
<1>1. PICK F : Splitting(F, path, Slash) /\ split(path, Slash) = F[1]
  BY SlashText, SplitEquation
<1>2. 1 \in 1 .. Len(path) + Len(Slash)
  BY SlashText DEF Text
<1> QED
  BY <1>1, <1>2 DEF Splitting, Names, Slash

(* The empty path has none.                                                *)
LEMMA NamesEmpty == Names(<<>>) = <<>>
  BY SlashText, SplitEmpty DEF Names, Slash

(* Around a separator, ...                                                 *)
LEMMA NamesAround ==
  ASSUME NEW a \in Text, NEW b \in Text
  PROVE  Names(a \o (Slash \o b)) = Names(a) \o Names(b)
  BY SplitConcat DEF Names, Slash

(* ... in front of one that ends the path, ...                             *)
LEMMA NamesSlash ==
  ASSUME NEW a \in Text PROVE Names(a \o Slash) = Names(a)
<1>1. <<>> \in Text /\ Slash \o <<>> = Slash
  BY SlashText, ConcatEmptySeq DEF Text
<1>2. Names(a \o (Slash \o <<>>)) = Names(a) \o Names(<<>>)
  BY <1>1, NamesAround
<1>3. Names(a) \o <<>> = Names(a)
  BY NamesTypes, ConcatEmptySeq
<1> QED
  BY <1>1, <1>2, <1>3, NamesEmpty

(* ... of a name alone, and of one more.                                   *)
LEMMA NamesAlone ==
  ASSUME NEW name \in Text, name # <<>>, ~Contains(name, "/")
  PROVE  Names(name) = <<name>>
  BY SlashText, SplitAlone DEF Names, Slash

(* One more name behind a separator is one more name.                      *)
LEMMA NamesEnd ==
  ASSUME NEW a \in Text, NEW name \in Text, name # <<>>, ~Contains(name, "/")
  PROVE  Names(a \o (Slash \o name)) = Append(Names(a), name)
<1>1. Names(a \o (Slash \o name)) = Names(a) \o <<name>>
  BY NamesAround, NamesAlone
<1> QED
  BY <1>1, NamesTypes, AppendIsConcat

(* A path cut at a separator.                                              *)
LEMMA CutAt ==
  ASSUME NEW path \in Text, NEW p \in 1 .. Len(path), path[p] = "/",
         NEW n \in p .. Len(path)
  PROVE  /\ SubSeq(path, 1, n) = SubSeq(path, 1, p - 1) \o (Slash \o SubSeq(path, p + 1, n))
         /\ SubSeq(path, 1, p - 1) \in Text
         /\ SubSeq(path, p + 1, n) \in Text
<1>1. Len(path) \in Nat /\ p \in Nat /\ n \in Nat
  BY DEF Text
<1>2. SubSeq(path, p, n) = <<path[p]>> \o SubSeq(path, p + 1, n)
  BY <1>1, SubSeqRecursiveFirst DEF Text
<1>3. SubSeq(path, 1, p - 1) \o SubSeq(path, p, n) = SubSeq(path, 1, n)
  <2> DEFINE k == p - 1
  <2>1. 1 \in 1 .. Len(path) + 1 /\ k \in 1 - 1 .. Len(path) /\ n \in k .. Len(path) /\ k + 1 = p
    BY <1>1
  <2> HIDE DEF k
  <2>2. SubSeq(path, 1, k) \o SubSeq(path, k + 1, n) = SubSeq(path, 1, n)
    BY <2>1, ConcatAdjacentSubSeq DEF Text
  <2> QED
    BY <2>1, <2>2 DEF k
<1>4. SubSeq(path, 1, p - 1) \in Text
  <2>1. p - 1 \in Int /\ p - 1 <= Len(path) /\ 1 \in Nat /\ 1 > 0
    BY <1>1
  <2> QED
    BY <2>1, Cuts
<1>5. SubSeq(path, p + 1, n) \in Text
  <2>1. n \in Int /\ n <= Len(path) /\ p + 1 \in Nat /\ p + 1 > 0
    BY <1>1
  <2> QED
    BY <2>1, Cuts
<1> QED
  BY <1>2, <1>3, <1>4, <1>5 DEF Slash

(* The beginnings of a path are paths.                                     *)
LEMMA Beginnings ==
  ASSUME NEW path \in Text, NEW n \in 0 .. Len(path)
  PROVE  /\ SubSeq(path, 1, n) \in Text
         /\ Len(SubSeq(path, 1, n)) = n
         /\ \A j \in 1 .. n : SubSeq(path, 1, n)[j] = path[j]
<1>1. 1 \in Int /\ n \in Int /\ \A j \in 1 .. n : path[j] \in Char
  BY DEF Text
<1>2. /\ SubSeq(path, 1, n) \in Seq(Char)
      /\ Len(SubSeq(path, 1, n)) = IF 1 <= n THEN n - 1 + 1 ELSE 0
      /\ \A j \in 1 .. n - 1 + 1 : SubSeq(path, 1, n)[j] = path[1 + j - 1]
  BY <1>1, SubSeqProperties
<1>3. n - 1 + 1 = n /\ (~(1 <= n) => n = 0) /\ \A j \in 1 .. n : 1 + j - 1 = j
  BY <1>1
<1> QED
  BY <1>2, <1>3 DEF Text

(* Up to a separator the names are those in front of it; from there on to  *)
(* the next one there is one name more, or none.                           *)
Ends(path, q) == q = 0 \/ path[q] = "/"

(* Up to a separator that one is of no account.                            *)
LEMMA NamesUpTo ==
  ASSUME NEW path \in Text, NEW q \in 1 .. Len(path), path[q] = "/"
  PROVE  Names(SubSeq(path, 1, q)) = Names(SubSeq(path, 1, q - 1))
<1>1. q \in q .. Len(path) /\ q + 1 \in Int /\ q \in Int /\ q < q + 1
  BY DEF Text
<1>2. SubSeq(path, q + 1, q) = <<>>
  BY <1>1, SubSeqEmpty
<1>3. /\ SubSeq(path, 1, q) = SubSeq(path, 1, q - 1) \o (Slash \o SubSeq(path, q + 1, q))
      /\ SubSeq(path, 1, q - 1) \in Text
  BY <1>1, CutAt
<1>4. Slash \o <<>> = Slash
  BY SlashText, ConcatEmptySeq DEF Text
<1> QED
  BY <1>2, <1>3, <1>4, NamesSlash

(* From a separator to the next one.                                       *)
LEMMA NamesBetween ==
  ASSUME NEW path \in Text, NEW q \in 0 .. Len(path), Ends(path, q),
         NEW n \in q + 1 .. Len(path), \A j \in q + 1 .. n : path[j] # "/"
  PROVE  /\ Names(SubSeq(path, 1, n))
              = Append(Names(SubSeq(path, 1, q)), SubSeq(path, q + 1, n))
         /\ SubSeq(path, q + 1, n) \in Text
<1>1. Len(path) \in Nat /\ q \in Nat /\ n \in Nat /\ n \in q .. Len(path)
  BY DEF Text
<1> DEFINE name == SubSeq(path, q + 1, n)
<1>2. name \in Text /\ name # <<>> /\ ~Contains(name, "/")
  <2>1. q + 1 \in Int /\ n \in Int /\ \A j \in q + 1 .. n : path[j] \in Char
    BY <1>1 DEF Text
  <2>2. /\ name \in Seq(Char)
        /\ Len(name) = n - (q + 1) + 1
        /\ \A j \in 1 .. n - (q + 1) + 1 : name[j] = path[q + 1 + j - 1]
    BY <1>1, <2>1, SubSeqProperties
  <2>3. /\ n - (q + 1) + 1 > 0
        /\ \A j \in 1 .. n - (q + 1) + 1 : q + 1 + j - 1 \in q + 1 .. n
    BY <1>1
  <2> HIDE DEF name
  <2>4. name # <<>>
    BY <2>2, <2>3
  <2>5. ~Contains(name, "/")
    BY <2>2, <2>3 DEF Contains
  <2> QED
    BY <2>2, <2>4, <2>5 DEF Text
<1>3. CASE q = 0
  <2>1. SubSeq(path, 1, q) = <<>> /\ Names(<<>>) = <<>>
    BY <1>3, SubSeqEmpty, NamesEmpty
  <2>2. SubSeq(path, 1, n) = name
    BY <1>3
  <2>3. Append(<<>>, name) = <<name>>
    OBVIOUS
  <2> HIDE DEF name
  <2> QED
    BY <1>2, <2>1, <2>2, <2>3, NamesAlone DEF name
<1>4. CASE q # 0
  <2>1. q \in 1 .. Len(path) /\ path[q] = "/"
    BY <1>1, <1>4 DEF Ends
  <2>2. /\ SubSeq(path, 1, n) = SubSeq(path, 1, q - 1) \o (Slash \o name)
        /\ SubSeq(path, 1, q - 1) \in Text
    BY <1>1, <2>1, CutAt
  <2>3. Names(SubSeq(path, 1, q)) = Names(SubSeq(path, 1, q - 1))
    BY <2>1, NamesUpTo
  <2> HIDE DEF name
  <2>4. Names(SubSeq(path, 1, n)) = Append(Names(SubSeq(path, 1, q - 1)), name)
    BY <1>2, <2>2, NamesEnd
  <2> QED
    BY <1>2, <2>3, <2>4 DEF name
<1> QED
  BY <1>3, <1>4

(* There is a last separator up to every place, or none.                   *)
LEMMA LastEnd ==
  ASSUME NEW path \in Text, NEW n \in 0 .. Len(path)
  PROVE  \E q \in 0 .. n : Ends(path, q) /\ \A j \in q + 1 .. n : path[j] # "/"
<1> DEFINE C == {k \in 0 .. n : Ends(path, n - k)}
<1>1. n \in Nat /\ n - n = 0
  BY DEF Text
<1>2. C \in SUBSET Nat /\ n \in C
  BY <1>1 DEF Ends
<1>3. \A k \in 0 .. n : k \in C <=> Ends(path, n - k)
  OBVIOUS
<1>4. C \subseteq 0 .. n
  OBVIOUS
<1> HIDE DEF C
<1>5. PICK k \in C : \A l \in C : k <= l
  BY <1>2, Least
<1>6. n - k \in 0 .. n /\ Ends(path, n - k)
  BY <1>1, <1>3, <1>4, <1>5
<1>7. ASSUME NEW j \in n - k + 1 .. n PROVE path[j] # "/"
  <2>1. n - j \in 0 .. n /\ n - (n - j) = j /\ ~(k <= n - j)
    BY <1>1, <1>4, <1>5
  <2>2. ~Ends(path, j)
    BY <1>3, <1>5, <2>1
  <2> QED
    BY <2>2 DEF Ends
<1> QED
  BY <1>6, <1>7

-----------------------------------------------------------------------------
(* Directories; those without "." among their names are places to be.      *)
Dir == Seq(Text)

Resolved(dir) == dir \in Dir /\ \A i \in 1 .. Len(dir) : dir[i] # Dot

(* The dots are texts, and what stands for no directory is no place.       *)
LEMMA DotTexts == Dot \in Text /\ DotDot \in Text /\ Dot # <<>> /\ Missing \in Dir
<1>1. "." \in Char
  BY DEF Char
<1>2. Dot \in Text /\ Dot # <<>>
  BY <1>1, CharTexts DEF Dot
<1>3. DotDot \in Text
  BY <1>1, TwoElements DEF DotDot, Text
<1>4. Missing \in Dir
  BY <1>2, OneElement DEF Missing, Dir
<1> QED
  BY <1>2, <1>3, <1>4

(* A place to be is not what stands for no directory.                      *)
LEMMA ResolvedExists == \A dir : Resolved(dir) => dir # Missing
<1>1. Len(Missing) = 1 /\ Missing[1] = Dot
  BY DEF Missing
<1> QED
  BY <1>1 DEF Resolved

(* A name leads to a directory, or to what stands for none.                *)
LEMMA IntoType ==
  ASSUME NEW dirs, NEW dir \in Dir, NEW name \in Text
  PROVE  Into(dirs, dir, name) \in Dir
<1>1. Parent(dir) \in Dir
  BY DEF Parent, Front, Dir
<1>2. Append(dir, name) \in Dir
  BY AppendProperties DEF Dir
<1> QED
  BY <1>1, <1>2, DotTexts DEF Into

(* What is below a place by a name other than "." is one.                  *)
LEMMA AppendResolved ==
  ASSUME NEW dir, Resolved(dir), NEW name \in Text, name # Dot
  PROVE  Resolved(Append(dir, name))
<1>1. /\ Append(dir, name) \in Seq(Text)
      /\ Len(Append(dir, name)) = Len(dir) + 1
      /\ \A i \in 1 .. Len(dir) : Append(dir, name)[i] = dir[i]
      /\ Append(dir, name)[Len(dir) + 1] = name
  BY AppendProperties DEF Resolved, Dir
<1>2. Len(dir) \in Nat
  BY DEF Resolved, Dir
<1> DEFINE more == Append(dir, name)
<1> HIDE DEF more
<1>3. \A i \in 1 .. Len(dir) + 1 : i \in 1 .. Len(dir) \/ i = Len(dir) + 1
  BY <1>2
<1> QED
  BY <1>1, <1>3 DEF Resolved, Dir

(* So is the parent of a place.                                            *)
LEMMA ParentResolved ==
  ASSUME NEW dir, Resolved(dir) PROVE Resolved(Parent(dir))
<1>1. dir \in Seq(Text) /\ Len(dir) \in Nat /\ \A i \in 1 .. Len(dir) : dir[i] # Dot
  BY DEF Resolved, Dir
<1>2. CASE dir = <<>>
  BY <1>2 DEF Parent
<1>3. CASE dir # <<>>
  <2> DEFINE n == Len(dir) - 1
  <2>1. n \in Int /\ 1 \in Int /\ \A i \in 1 .. n : i \in 1 .. Len(dir) /\ 1 + i - 1 = i
    BY <1>1
  <2>2. n >= 0 /\ n - 1 + 1 = n
    BY <1>1, <1>3
  <2> HIDE DEF n
  <2>3. \A i \in 1 .. n : dir[i] \in Text
    BY <1>1, <2>1
  <2>4. /\ SubSeq(dir, 1, n) \in Seq(Text)
        /\ Len(SubSeq(dir, 1, n)) = IF 1 <= n THEN n - 1 + 1 ELSE 0
        /\ \A i \in 1 .. n - 1 + 1 : SubSeq(dir, 1, n)[i] = dir[1 + i - 1]
    BY <2>1, <2>3, SubSeqProperties
  <2>5. Len(SubSeq(dir, 1, n)) = n
    BY <2>1, <2>2, <2>4
  <2>6. Resolved(SubSeq(dir, 1, n))
    BY <1>1, <2>1, <2>2, <2>4, <2>5 DEF Resolved, Dir
  <2> QED
    BY <1>3, <2>6 DEF Parent, Front, n
<1> QED
  BY <1>2, <1>3

(* Names lead from one place to another; "." and ".." always do; and with  *)
(* more directories to the same ones.                                      *)
LEMMA IntoResolved ==
  ASSUME NEW dirs, NEW dir, Resolved(dir), NEW name \in Text
  PROVE  /\ Into(dirs, dir, name) # Missing => Resolved(Into(dirs, dir, name))
         /\ name \in {Dot, DotDot} => Into(dirs, dir, name) # Missing
         /\ \A more : dirs \subseteq more /\ Into(dirs, dir, name) # Missing
              => Into(more, dir, name) = Into(dirs, dir, name)
<1>1. dir # Missing /\ Resolved(Parent(dir)) /\ Parent(dir) # Missing
  BY ResolvedExists, ParentResolved
<1>2. name # Dot => Resolved(Append(dir, name))
  BY AppendResolved
<1> QED
  BY <1>1, <1>2 DEF Into

(* A walk, step by step.                                                   *)
Stepping(f, dirs, start, names) ==
  /\ f \in [0 .. Len(names) -> Dir]
  /\ f[0] = start
  /\ \A i \in 1 .. Len(names) : f[i] = Into(dirs, f[i - 1], names[i])

(* A walk is the last of its steps.                                        *)
LEMMA WalkSteps ==
  ASSUME NEW dirs, NEW start \in Dir, NEW names \in Seq(Text)
  PROVE  \E f : Stepping(f, dirs, start, names) /\ Walk(dirs, start, names) = f[Len(names)]
<1> DEFINE n == Len(names)
           V == Dir
           step == [i \in 1 .. n |-> [d \in V |-> Into(dirs, d, names[i])]]
           Is(f) == f = [i \in 0 .. Len(names) |->
                          IF i = 0 THEN start ELSE Into(dirs, f[i - 1], names[i])]
           At[i \in 0 .. Len(names)] ==
             IF i = 0 THEN start ELSE Into(dirs, At[i - 1], names[i])
<1>1. n \in Nat /\ \A i \in 1 .. n : names[i] \in Text
  OBVIOUS
<1>2. start \in V
  OBVIOUS
<1>3. step \in Steps(n, V)
  <2>1. \A i \in 1 .. n : \A d \in V : Into(dirs, d, names[i]) \in V
    BY <1>1, IntoType
  <2> HIDE DEF n, V
  <2> QED
    BY <2>1 DEF Steps
<1>4. \A i \in 1 .. n : \A d \in V : step[i][d] = Into(dirs, d, names[i])
  <2> HIDE DEF n, V
  <2> QED
    OBVIOUS
<1> HIDE DEF V, step
<1>5. \E f \in [0 .. n -> V] : Follows(f, n, start, step)
  <2>1. n \in Nat
    BY <1>1
  <2> HIDE DEF n
  <2> QED
    BY <1>2, <1>3, <2>1, StepwiseExists
<1>6. PICK f \in [0 .. n -> V] : Follows(f, n, start, step)
  BY <1>5
<1>7. /\ f[0] = start
      /\ \A i \in 1 .. n : f[i] = Into(dirs, f[i - 1], names[i])
  <2>1. f[0] = start /\ \A i \in 1 .. n : f[i] = step[i][f[i - 1]]
    BY <1>6 DEF Follows
  <2>2. \A i \in 1 .. n : i - 1 \in 0 .. n
    BY <1>1
  <2> HIDE DEF n
  <2>3. \A i \in 1 .. n : f[i - 1] \in V
    BY <2>2
  <2> QED
    BY <1>4, <2>1, <2>3
<1>8. Is(f)
  <2>1. \A i \in 0 .. n : f[i] = IF i = 0 THEN start ELSE Into(dirs, f[i - 1], names[i])
    <3>1. \A i \in 0 .. n : i # 0 => i \in 1 .. n
      BY <1>1
    <3> HIDE DEF n
    <3> QED
      BY <1>7, <3>1
  <2> QED
    BY <2>1
<1>9. Is(At)
  <2>1. \E g : Is(g)
    BY <1>8
  <2> QED
    BY <2>1
<1>10. Walk(dirs, start, names) = At[n]
  BY DEF Walk
<1> HIDE DEF At
<1>11. /\ At[0] = start
       /\ \A i \in 1 .. n : At[i] = Into(dirs, At[i - 1], names[i])
  <2>1. \A i \in 0 .. n : At[i] = IF i = 0 THEN start ELSE Into(dirs, At[i - 1], names[i])
    BY <1>9
  <2>2. 0 \in 0 .. n /\ \A i \in 1 .. n : i \in 0 .. n /\ i # 0
    BY <1>1
  <2> HIDE DEF n
  <2> QED
    BY <2>1, <2>2
<1>12. At[n] = f[n]
  <2>1. n \in Nat /\ n \in 0 .. n
    BY <1>1
  <2> HIDE DEF n
  <2>2. GoTogether(n, At, f)
    BY <1>7, <1>11 DEF GoTogether
  <2> QED
    BY <2>1, <2>2, StepwiseEqual
<1> QED
  BY <1>7, <1>10, <1>12 DEF Stepping, V

(* No names lead nowhere else.                                             *)
LEMMA WalkEmpty ==
  ASSUME NEW dirs, NEW start \in Dir PROVE Walk(dirs, start, <<>>) = start
<1>1. <<>> \in Seq(Text) /\ Len(<<>>) = 0
  OBVIOUS
<1>2. PICK f : Stepping(f, dirs, start, <<>>) /\ Walk(dirs, start, <<>>) = f[Len(<<>>)]
  BY <1>1, WalkSteps
<1> QED
  BY <1>1, <1>2 DEF Stepping

(* One more name is one more step.                                         *)
LEMMA WalkAppend ==
  ASSUME NEW dirs, NEW start \in Dir, NEW names \in Seq(Text), NEW name \in Text
  PROVE  Walk(dirs, start, Append(names, name)) = Into(dirs, Walk(dirs, start, names), name)
<1> DEFINE n == Len(names)
           more == Append(names, name)
<1>1. n \in Nat
  OBVIOUS
<1>2. /\ more \in Seq(Text) /\ Len(more) = n + 1
      /\ \A i \in 1 .. n : more[i] = names[i]
      /\ more[n + 1] = name
  BY AppendProperties
<1> HIDE DEF more
<1>3. PICK f : Stepping(f, dirs, start, more) /\ Walk(dirs, start, more) = f[Len(more)]
  BY <1>2, WalkSteps
<1>4. PICK g : Stepping(g, dirs, start, names) /\ Walk(dirs, start, names) = g[Len(names)]
  BY WalkSteps
<1>5. /\ f[0] = start /\ \A i \in 1 .. n + 1 : f[i] = Into(dirs, f[i - 1], more[i])
      /\ g[0] = start /\ \A i \in 1 .. n : g[i] = Into(dirs, g[i - 1], names[i])
  BY <1>2, <1>3, <1>4 DEF Stepping
<1>6. n + 1 \in 1 .. n + 1 /\ (n + 1) - 1 = n /\ n \in 0 .. n /\ \A i \in 1 .. n : i \in 1 .. n + 1
  BY <1>1
<1>7. f[n] = g[n]
  <2>1. n \in Nat
    BY <1>1
  <2> HIDE DEF n
  <2>2. GoTogether(n, f, g)
    BY <1>2, <1>5, <1>6 DEF GoTogether
  <2> QED
    BY <1>6, <2>1, <2>2, StepwiseEqual
<1>8. f[n + 1] = Into(dirs, f[n], name)
  <2> HIDE DEF n
  <2> QED
    BY <1>2, <1>5, <1>6
<1> QED
  BY <1>2, <1>3, <1>4, <1>7, <1>8 DEF more

(* A walk that finds a directory finds it among more of them, too.         *)
LEMMA WalkResolved ==
  ASSUME NEW dirs, NEW start, Resolved(start), NEW names \in Seq(Text),
         Walk(dirs, start, names) # Missing, NEW more, dirs \subseteq more
  PROVE  /\ Resolved(Walk(dirs, start, names))
         /\ Walk(more, start, names) = Walk(dirs, start, names)
<1> DEFINE n == Len(names)
<1>1. n \in Nat /\ start \in Dir /\ \A i \in 1 .. n : names[i] \in Text
  BY DEF Resolved
<1>2. PICK f : Stepping(f, dirs, start, names) /\ Walk(dirs, start, names) = f[n]
  BY <1>1, WalkSteps
<1>3. PICK g : Stepping(g, more, start, names) /\ Walk(more, start, names) = g[n]
  BY <1>1, WalkSteps
<1>4. /\ f[0] = start /\ \A i \in 1 .. n : f[i] = Into(dirs, f[i - 1], names[i])
      /\ g[0] = start /\ \A i \in 1 .. n : g[i] = Into(more, g[i - 1], names[i])
  BY <1>2, <1>3 DEF Stepping
<1> DEFINE T == {k \in Nat : k <= n /\ f[k] # Missing => Resolved(f[k]) /\ g[k] = f[k]}
<1> HIDE DEF n
<1>5. 0 \in T
  BY <1>4
<1>6. ASSUME NEW k \in T PROVE k + 1 \in T
  <2> SUFFICES ASSUME k + 1 <= n, f[k + 1] # Missing
               PROVE  Resolved(f[k + 1]) /\ g[k + 1] = f[k + 1]
    OBVIOUS
  <2>1. k + 1 \in 1 .. n /\ (k + 1) - 1 = k /\ k <= n /\ k \in Nat
    BY <1>1
  <2>2. f[k + 1] = Into(dirs, f[k], names[k + 1]) /\ g[k + 1] = Into(more, g[k], names[k + 1])
    BY <1>4, <2>1
  <2>3. f[k] # Missing
    BY <2>2 DEF Into
  <2>4. Resolved(f[k]) /\ g[k] = f[k]
    BY <1>6, <2>1, <2>3
  <2>5. names[k + 1] \in Text
    BY <1>1, <2>1
  <2> QED
    BY <2>2, <2>4, <2>5, IntoResolved
<1>7. n \in T
  <2>1. T \in SUBSET Nat
    OBVIOUS
  <2> HIDE DEF T
  <2>2. T = Nat
    BY <1>5, <1>6, <2>1, NatInd
  <2> QED
    BY <1>1, <2>2
<1>8. n <= n
  BY <1>1
<1> QED
  BY <1>2, <1>3, <1>7, <1>8

-----------------------------------------------------------------------------
(* Where a path starts is a place to be, and so it is where its beginnings *)
(* do.                                                                     *)
LEMMA StartResolved ==
  ASSUME NEW path \in Text
  PROVE  /\ Resolved(Start(path))
         /\ Start(path) \in Dir
         /\ \A n \in 1 .. Len(path) : Start(SubSeq(path, 1, n)) = Start(path)
<1>1. Resolved(<<>>)
  BY DEF Resolved, Dir
<1>2. Resolved(Cwd)
  <2>1. Cwd \in Seq(Seq(STRING))
    BY CwdAssumption
  <2>2. Cwd \in Dir
    BY <2>1, StringTexts, SeqMonotonic DEF Dir
  <2>3. \A i \in 1 .. Len(Cwd) : Cwd[i] # Dot
    BY <2>1, CwdAssumption
  <2> QED
    BY <2>2, <2>3 DEF Resolved
<1>3. Resolved(Start(path))
  BY <1>1, <1>2 DEF Start
<1>4. ASSUME NEW n \in 1 .. Len(path) PROVE Start(SubSeq(path, 1, n)) = Start(path)
  <2>1. n \in 0 .. Len(path) /\ 1 \in 1 .. n /\ n \in Nat /\ n > 0 /\ Len(path) > 0
    BY DEF Text
  <2> DEFINE cut == SubSeq(path, 1, n)
  <2>2. cut \in Text /\ Len(cut) = n /\ cut[1] = path[1]
    BY <2>1, Beginnings
  <2> HIDE DEF cut
  <2>3. cut # <<>> /\ path # <<>>
    BY <2>1, <2>2 DEF Text
  <2> QED
    BY <2>2, <2>3 DEF Start, cut
<1> QED
  BY <1>3, <1>4 DEF Resolved

-----------------------------------------------------------------------------
(* Where the names up to some place of a path lead, and what is true when  *)
(* the loop has come past place p: the path leads somewhere from each of   *)
(* its separators so far, and what was made is on its way.                 *)
Reach(dirs, path, q) == Walk(dirs, Start(path), Names(SubSeq(path, 1, q)))

Passed(dirs, path, d) ==
  /\ d # Missing
  /\ \E n \in 1 .. Len(Names(path)) : d = Walk(dirs, Start(path), SubSeq(Names(path), 1, n))

Done(dirs, made, path, p) ==
  /\ made \in SUBSET Dir
  /\ dirs \subseteq made
  /\ \A q \in 0 .. p : Ends(path, q) => Reach(made, path, q) # Missing
  /\ \A d \in made \ dirs : Passed(made, path, d)

(* The names of the beginning of a path are names.                         *)
LEMMA BeginningNames ==
  ASSUME NEW names \in Seq(Text), NEW n \in 1 .. Len(names)
  PROVE  SubSeq(names, 1, n) \in Seq(Text)
<1>1. 1 \in Int /\ n \in Int /\ \A i \in 1 .. n : names[i] \in Text
  OBVIOUS
<1> QED
  BY <1>1, SubSeqProperties

(* Making more keeps what is true.                                         *)
LEMMA DoneGrows ==
  ASSUME NEW path \in Text, NEW dirs, NEW made, NEW p \in 1 .. Len(path),
         Done(dirs, made, path, p - 1),
         NEW new \in SUBSET Dir, made \subseteq new,
         Ends(path, p) => Reach(new, path, p) # Missing,
         \A d \in new \ made : Passed(new, path, d)
  PROVE  Done(dirs, new, path, p)
<1>1. Resolved(Start(path)) /\ Names(path) \in Seq(Text) /\ Len(path) \in Nat
  BY StartResolved, NamesTypes DEF Text
<1>2. ASSUME NEW q \in 0 .. p, Ends(path, q) PROVE Reach(new, path, q) # Missing
  <2>1. CASE q = p
    BY <1>2, <2>1
  <2>2. CASE q # p
    <3>1. q \in 0 .. p - 1 /\ q \in 0 .. Len(path)
      BY <1>1, <2>2
    <3>2. Reach(made, path, q) # Missing
      BY <1>2, <3>1 DEF Done
    <3>3. Names(SubSeq(path, 1, q)) \in Seq(Text)
      BY <3>1, Beginnings, NamesTypes
    <3> QED
      BY <1>1, <3>2, <3>3, WalkResolved DEF Reach
  <2> QED
    BY <2>1, <2>2
<1>3. ASSUME NEW d \in made, Passed(made, path, d) PROVE Passed(new, path, d)
  <2>1. PICK n \in 1 .. Len(Names(path)) :
          d = Walk(made, Start(path), SubSeq(Names(path), 1, n))
    BY <1>3 DEF Passed
  <2>2. SubSeq(Names(path), 1, n) \in Seq(Text)
    BY <1>1, BeginningNames
  <2>3. d # Missing
    BY <1>3 DEF Passed
  <2>4. d = Walk(new, Start(path), SubSeq(Names(path), 1, n))
    BY <1>1, <2>1, <2>2, <2>3, WalkResolved
  <2> QED
    BY <2>3, <2>4 DEF Passed
<1>4. \A d \in new \ dirs : Passed(new, path, d)
  BY <1>3 DEF Done
<1> QED
  BY <1>2, <1>4 DEF Done

(* The directory that mkdir is asked for in front of a separator.          *)
Subdir(path, p) == SubSeq(path, 1, p - 1)

(* It has one name more than the path up to the separator before that.     *)
LEMMA SubdirNames ==
  ASSUME NEW path \in Text, NEW p \in 1 .. Len(path), p # 1, path[p - 1] # "/"
  PROVE  \E q \in 0 .. p - 2 :
           /\ Ends(path, q)
           /\ SubSeq(path, q + 1, p - 1) \in Text
           /\ Names(SubSeq(path, 1, q)) \in Seq(Text)
           /\ Names(Subdir(path, p))
                = Append(Names(SubSeq(path, 1, q)), SubSeq(path, q + 1, p - 1))
<1>1. Len(path) \in Nat /\ p - 1 \in 0 .. Len(path) /\ p - 1 \in 1 .. Len(path)
  BY DEF Text
<1>2. PICK q \in 0 .. p - 1 : Ends(path, q) /\ \A j \in q + 1 .. p - 1 : path[j] # "/"
  BY <1>1, LastEnd
<1>3. q # p - 1
  BY <1>1, <1>2 DEF Ends
<1>4. q \in 0 .. p - 2 /\ q \in 0 .. Len(path) /\ p - 1 \in q + 1 .. Len(path)
  BY <1>1, <1>3
<1>5. /\ Names(SubSeq(path, 1, p - 1))
           = Append(Names(SubSeq(path, 1, q)), SubSeq(path, q + 1, p - 1))
      /\ SubSeq(path, q + 1, p - 1) \in Text
  <2> DEFINE n == p - 1
  <2>1. n \in q + 1 .. Len(path) /\ \A j \in q + 1 .. n : path[j] # "/"
    BY <1>2, <1>4
  <2> HIDE DEF n
  <2>2. /\ Names(SubSeq(path, 1, n)) = Append(Names(SubSeq(path, 1, q)), SubSeq(path, q + 1, n))
        /\ SubSeq(path, q + 1, n) \in Text
    BY <1>2, <1>4, <2>1, NamesBetween
  <2> QED
    BY <2>2 DEF n
<1>6. Names(SubSeq(path, 1, q)) \in Seq(Text)
  BY <1>4, Beginnings, NamesTypes
<1> QED
  BY <1>2, <1>4, <1>5, <1>6 DEF Subdir

(* Up to a separator the names are those of that directory.                *)
LEMMA SubdirReach ==
  ASSUME NEW path \in Text, NEW p \in 1 .. Len(path), path[p] = "/", NEW dirs
  PROVE  /\ Reach(dirs, path, p) = Walk(dirs, Start(path), Names(Subdir(path, p)))
         /\ Subdir(path, p) \in Text
         /\ p # 1 => Start(Subdir(path, p)) = Start(path)
<1>1. Len(path) \in Nat /\ p - 1 \in 0 .. Len(path) /\ (p # 1 => p - 1 \in 1 .. Len(path))
  BY DEF Text
<1>2. Subdir(path, p) \in Text
  BY <1>1, Beginnings DEF Subdir
<1>3. p # 1 => Start(Subdir(path, p)) = Start(path)
  BY <1>1, StartResolved DEF Subdir
<1> QED
  BY <1>2, <1>3, NamesUpTo DEF Reach, Subdir

(* mkdir, asked for the last of some names.                                *)
LEMMA MkdirLast ==
  ASSUME NEW dirs, NEW path, NEW names \in Seq(Text), NEW name \in Text,
         Names(path) = Append(names, name)
  PROVE  mkdir(dirs, path) =
           IF Walk(dirs, Start(path), names) = Missing \/ name \in {Dot, DotDot} THEN dirs
           ELSE dirs \cup {Append(Walk(dirs, Start(path), names), name)}
<1> DEFINE all == Append(names, name)
<1>1. /\ all \in Seq(Text) /\ Len(all) = Len(names) + 1 /\ Len(names) \in Nat
      /\ \A i \in 1 .. Len(names) : all[i] = names[i]
      /\ all[Len(names) + 1] = name
  BY AppendProperties
<1> HIDE DEF all
<1>2. Last(all) = name
  BY <1>1 DEF Last
<1>3. Front(all) = names
  <2> DEFINE n == Len(names)
  <2>1. 1 \in Int /\ n \in Int /\ n >= 0 /\ n - 1 + 1 = n /\ (n + 1) - 1 = n
    BY <1>1
  <2>2. \A i \in 1 .. n : all[i] \in Text /\ 1 + i - 1 = i /\ i \in 1 .. n - 1 + 1
    <3>1. \A i \in 1 .. n : i \in 1 .. Len(all) /\ 1 + i - 1 = i /\ i \in 1 .. n - 1 + 1
      BY <1>1
    <3> QED
      BY <1>1, <3>1
  <2> HIDE DEF n
  <2>3. /\ SubSeq(all, 1, n) \in Seq(Text)
        /\ Len(SubSeq(all, 1, n)) = IF 1 <= n THEN n - 1 + 1 ELSE 0
        /\ \A i \in 1 .. n - 1 + 1 : SubSeq(all, 1, n)[i] = all[1 + i - 1]
    BY <2>1, <2>2, SubSeqProperties
  <2>4. Len(SubSeq(all, 1, n)) = n
    BY <2>1, <2>3
  <2>5. \A i \in 1 .. n : SubSeq(all, 1, n)[i] = names[i]
    BY <1>1, <2>2, <2>3 DEF n
  <2>6. SubSeq(all, 1, n) = names
    BY <2>3, <2>4, <2>5, SeqEqual DEF n
  <2> QED
    BY <1>1, <2>1, <2>6 DEF Front, n
<1> QED
  BY <1>2, <1>3 DEF mkdir, all

(* What the loop makes is a set of directories.                            *)
LEMMA MakeAtType ==
  ASSUME NEW dirs \in SUBSET Dir, NEW path \in Text, NEW p \in 1 .. Len(path)
  PROVE  MakeAt(dirs, path, p) \in SUBSET Dir
<1>1. CASE \/ path[p] \notin Separators
           \/ p = 1 \/ path[p - 1] \in Separators
           \/ Subdir(path, p) \in {Dot, DotDot}
           \/ exists(dirs, Subdir(path, p))
  BY <1>1 DEF MakeAt, Subdir
<1>2. CASE ~ \/ path[p] \notin Separators
             \/ p = 1 \/ path[p - 1] \in Separators
             \/ Subdir(path, p) \in {Dot, DotDot}
             \/ exists(dirs, Subdir(path, p))
  <2>1. MakeAt(dirs, path, p) = mkdir(dirs, Subdir(path, p))
    BY <1>2 DEF MakeAt, Subdir
  <2>2. p # 1 /\ path[p - 1] # "/"
    BY <1>2 DEF Separators
  <2>3. PICK q \in 0 .. p - 2 :
          /\ SubSeq(path, q + 1, p - 1) \in Text
          /\ Names(SubSeq(path, 1, q)) \in Seq(Text)
          /\ Names(Subdir(path, p))
               = Append(Names(SubSeq(path, 1, q)), SubSeq(path, q + 1, p - 1))
    BY <2>2, SubdirNames
  <2> DEFINE names == Names(SubSeq(path, 1, q))
             name == SubSeq(path, q + 1, p - 1)
             sub == Subdir(path, p)
             parent == Walk(dirs, Start(sub), names)
  <2>4. names \in Seq(Text) /\ name \in Text /\ Names(sub) = Append(names, name)
    BY <2>3
  <2>5. sub \in Text
    <3>1. p - 1 \in 0 .. Len(path)
      BY DEF Text
    <3> QED
      BY <3>1, Beginnings DEF Subdir
  <2> HIDE DEF names, name, sub
  <2>6. parent \in Dir
    <3>1. Start(sub) \in Dir
      BY <2>5, StartResolved
    <3>2. PICK f : Stepping(f, dirs, Start(sub), names) /\ parent = f[Len(names)]
      BY <2>4, <3>1, WalkSteps
    <3>3. Len(names) \in 0 .. Len(names)
      BY <2>4
    <3> QED
      BY <3>2, <3>3 DEF Stepping
  <2>7. Append(parent, name) \in Dir
    <3> HIDE DEF parent
    <3> QED
      BY <2>4, <2>6, AppendProperties DEF Dir
  <2>8. mkdir(dirs, sub) = IF parent = Missing \/ name \in {Dot, DotDot} THEN dirs
                           ELSE dirs \cup {Append(parent, name)}
    BY <2>4, MkdirLast
  <2> HIDE DEF parent
  <2> QED
    BY <2>1, <2>7, <2>8 DEF sub
<1> QED
  BY <1>1, <1>2

(* A path that the code and the system split alike.                        *)
Slashed(path) == path \in Text /\ ~Contains(path, "\\")

(* In it the separators are the slashes.                                   *)
LEMMA SlashedSeparators ==
  ASSUME NEW path, Slashed(path), NEW p \in 1 .. Len(path)
  PROVE  path[p] \in Separators <=> path[p] = "/"
  BY DEF Slashed, Contains, Separators

(* A step of the loop: one more separator is passed.                       *)
LEMMA MakeAtDone ==
  ASSUME NEW path, Slashed(path), NEW dirs, NEW made, NEW p \in 1 .. Len(path),
         Done(dirs, made, path, p - 1)
  PROVE  Done(dirs, MakeAt(made, path, p), path, p)
<1> DEFINE new == MakeAt(made, path, p)
           sub == Subdir(path, p)
           start == Start(path)
<1>1. /\ path \in Text /\ Len(path) \in Nat /\ p - 1 \in 0 .. p - 1
      /\ made \in SUBSET Dir /\ new \in SUBSET Dir
      /\ Resolved(start) /\ start \in Dir
  <2>1. path \in Text /\ made \in SUBSET Dir
    BY DEF Slashed, Done
  <2>2. Len(path) \in Nat /\ p - 1 \in 0 .. p - 1
    BY <2>1 DEF Text
  <2> QED
    BY <2>1, <2>2, MakeAtType, StartResolved
<1>2. new = IF \/ path[p] # "/"
               \/ p = 1 \/ path[p - 1] = "/"
               \/ sub \in {Dot, DotDot}
               \/ exists(made, sub)
            THEN made ELSE mkdir(made, sub)
  <2>1. p # 1 => p - 1 \in 1 .. Len(path)
    BY <1>1
  <2> QED
    BY <2>1, SlashedSeparators DEF MakeAt, Subdir
<1> HIDE DEF new, sub, start
<1>3. CASE path[p] # "/"
  <2>1. new = made /\ ~Ends(path, p)
    BY <1>2, <1>3 DEF Ends
  <2> QED
    BY <1>1, <2>1, DoneGrows DEF new
<1>4. CASE path[p] = "/"
  <2>1. /\ \A x : Reach(x, path, p) = Walk(x, start, Names(sub))
        /\ sub \in Text
        /\ p # 1 => Start(sub) = start
    BY <1>1, <1>4, SubdirReach DEF sub, start
  <2>2. CASE p = 1 \/ path[p - 1] = "/"
    <3>1. new = made /\ Ends(path, p - 1)
      <4>1. new = made
        BY <1>2, <2>2
      <4>2. p = 1 => p - 1 = 0
        OBVIOUS
      <4>3. Ends(path, p - 1)
        BY <2>2, <4>2 DEF Ends
      <4> QED
        BY <4>1, <4>3
    <3>2. Reach(made, path, p - 1) # Missing
      BY <1>1, <3>1 DEF Done
    <3>3. Reach(made, path, p) = Reach(made, path, p - 1)
      BY <2>1 DEF Reach, start, sub, Subdir
    <3> QED
      BY <1>1, <3>1, <3>2, <3>3, DoneGrows DEF new
  <2>3. CASE ~(p = 1 \/ path[p - 1] = "/")
    <3>1. PICK q \in 0 .. p - 2 :
            /\ Ends(path, q)
            /\ SubSeq(path, q + 1, p - 1) \in Text
            /\ Names(SubSeq(path, 1, q)) \in Seq(Text)
            /\ Names(sub) = Append(Names(SubSeq(path, 1, q)), SubSeq(path, q + 1, p - 1))
      BY <1>1, <2>3, SubdirNames DEF sub
    <3> DEFINE names == Names(SubSeq(path, 1, q))
               name == SubSeq(path, q + 1, p - 1)
               dir == Walk(made, start, names)
    <3>2. names \in Seq(Text) /\ name \in Text /\ Names(sub) = Append(names, name)
      BY <3>1
    <3>3. dir # Missing
      <4>1. q \in 0 .. p - 1
        BY <1>1
      <4>2. Reach(made, path, q) # Missing
        BY <3>1, <4>1 DEF Done
      <4> QED
        BY <4>2 DEF Reach, start
    <3>4. sub \in {Dot, DotDot} => name \in {Dot, DotDot}
      <4> SUFFICES ASSUME sub \in {Dot, DotDot} PROVE q = 0
        BY DEF sub, Subdir
      <4>1. /\ Len(sub) = p - 1
            /\ \A j \in 1 .. p - 1 : sub[j] = path[j]
        <5>1. p - 1 \in 0 .. Len(path)
          BY <1>1
        <5> QED
          BY <1>1, <5>1, Beginnings DEF sub, Subdir
      <4>2. \A j \in 1 .. Len(sub) : sub[j] # "/"
        <5>1. CASE sub = Dot
          <6>1. Len(sub) = 1 /\ sub[1] = "."
            BY <5>1 DEF Dot
          <6> QED
            BY <6>1
        <5>2. CASE sub = DotDot
          <6>1. Len(sub) = 2 /\ sub[1] = "." /\ sub[2] = "."
            BY <5>2 DEF DotDot
          <6> QED
            BY <6>1
        <5> QED
          BY <5>1, <5>2
      <4>3. q # 0 => q \in 1 .. p - 1
        BY <1>1
      <4> QED
        BY <3>1, <4>1, <4>2, <4>3 DEF Ends
    <3> HIDE DEF names, name, dir
    <3>5. Resolved(dir)
      BY <1>1, <3>2, <3>3, WalkResolved DEF dir
    <3>6. \A x : Walk(x, start, Names(sub)) = Into(x, Walk(x, start, names), name)
      BY <1>1, <3>2, WalkAppend
    <3>7. exists(made, sub) <=> Walk(made, start, Names(sub)) # Missing
      BY <2>1, <2>3 DEF exists
    <3>8. CASE Into(made, dir, name) # Missing
      <4>1. Walk(made, start, Names(sub)) # Missing
        BY <3>6, <3>8 DEF dir
      <4>2. new = made
        BY <1>2, <3>7, <4>1
      <4>3. Reach(made, path, p) # Missing
        BY <2>1, <4>1
      <4> QED
        BY <1>1, <4>2, <4>3, DoneGrows DEF new
    <3>9. CASE Into(made, dir, name) = Missing
      <4>1. name \notin {Dot, DotDot}
        BY <3>2, <3>5, <3>9, IntoResolved
      <4>2. new = made \cup {Append(dir, name)}
        <5>1. Walk(made, start, Names(sub)) = Missing
          BY <3>6, <3>9 DEF dir
        <5>2. new = mkdir(made, sub)
          BY <1>2, <1>4, <2>3, <3>4, <3>7, <4>1, <5>1
        <5>3. mkdir(made, sub) = made \cup {Append(dir, name)}
          BY <2>1, <2>3, <3>2, <3>3, <4>1, MkdirLast DEF dir
        <5> QED
          BY <5>2, <5>3
      <4>3. Walk(new, start, names) = dir
        <5>1. made \subseteq new
          BY <4>2
        <5> QED
          BY <1>1, <3>2, <3>3, <5>1, WalkResolved DEF dir
      <4>4. Append(dir, name) # Missing
        <5>1. Resolved(Append(dir, name))
          BY <3>2, <3>5, <4>1, AppendResolved
        <5> QED
          BY <5>1, ResolvedExists
      <4>5. Walk(new, start, Names(sub)) = Append(dir, name)
        <5>1. Walk(new, start, Names(sub)) = Into(new, dir, name)
          BY <3>6, <4>3
        <5>2. Append(dir, name) \in new
          BY <4>2
        <5> QED
          BY <3>3, <4>1, <5>1, <5>2 DEF Into
      <4>6. Passed(new, path, Append(dir, name))
        <5>1. PICK rest \in Seq(Text) : Names(path) = Names(sub) \o rest
          <6>1. Len(path) \in p .. Len(path)
            BY <1>1
          <6>2. /\ SubSeq(path, 1, Len(path))
                     = SubSeq(path, 1, p - 1) \o (Slash \o SubSeq(path, p + 1, Len(path)))
                /\ SubSeq(path, 1, p - 1) \in Text
                /\ SubSeq(path, p + 1, Len(path)) \in Text
            BY <1>1, <1>4, <6>1, CutAt
          <6>3. SubSeq(path, 1, Len(path)) = path
            BY <1>1, SubSeqFull DEF Text
          <6>4. Names(path)
                  = Names(SubSeq(path, 1, p - 1)) \o Names(SubSeq(path, p + 1, Len(path)))
            BY <6>2, <6>3, NamesAround
          <6>5. Names(SubSeq(path, p + 1, Len(path))) \in Seq(Text)
            BY <6>2, NamesTypes
          <6> QED
            BY <6>4, <6>5 DEF sub, Subdir
        <5> DEFINE n == Len(Names(sub))
        <5>2. Names(sub) \in Seq(Text) /\ n \in Nat /\ n > 0
          BY <3>2, AppendProperties
        <5>3. n \in 1 .. Len(Names(path)) /\ SubSeq(Names(path), 1, n) = Names(sub)
          <6> DEFINE s == Names(sub)
          <6>1. s \in Seq(Text) /\ Len(s) \in Nat /\ Len(s) > 0 /\ Names(path) = s \o rest
            BY <5>1, <5>2
          <6> HIDE DEF s
          <6>2. Len(s) \in 1 .. Len(s) /\ 1 \in 1 .. Len(s)
            BY <6>1
          <6>3. SubSeq(s \o rest, 1, Len(s)) = SubSeq(s, 1, Len(s))
            BY <6>1, <6>2, SubSeqOfConcat1
          <6>4. SubSeq(s, 1, Len(s)) = s
            BY <6>1, SubSeqFull
          <6>5. Len(s) \in 1 .. Len(s \o rest)
            BY <6>1
          <6> QED
            BY <6>1, <6>3, <6>4, <6>5 DEF s
        <5> HIDE DEF n
        <5> QED
          BY <4>4, <4>5, <5>3 DEF Passed, start
      <4>7. Reach(new, path, p) # Missing
        BY <2>1, <4>4, <4>5
      <4>8. made \subseteq new /\ \A d \in new \ made : Passed(new, path, d)
        BY <4>2, <4>6
      <4>9. Done(dirs, new, path, p)
        BY <1>1, <4>7, <4>8, DoneGrows
      <4> QED
        BY <4>9 DEF new
    <3> QED
      BY <3>8, <3>9
  <2> QED
    BY <2>2, <2>3
<1> QED
  BY <1>3, <1>4

(* The whole loop.                                                         *)
LEMMA CreateDirDone ==
  ASSUME NEW dirs \in SUBSET Dir, NEW file, Slashed(getPath(file)),
         ~exists(dirs, getPath(file))
  PROVE  Done(dirs, createDir(dirs, file), getPath(file), Len(getPath(file)))
<1> DEFINE path == getPath(file)
           n == Len(path)
           V == SUBSET Dir
           step == [p \in 1 .. n |-> [t \in V |-> MakeAt(t, path, p)]]
           Is(f) == f = [p \in 0 .. Len(getPath(file)) |->
                          IF p = 0 THEN dirs ELSE MakeAt(f[p - 1], getPath(file), p)]
           After[p \in 0 .. Len(getPath(file))] ==
             IF p = 0 THEN dirs ELSE MakeAt(After[p - 1], getPath(file), p)
<1>1. path \in Text /\ n \in Nat
  BY DEF Slashed, Text
<1>2. createDir(dirs, file) = After[n]
  BY DEF createDir
<1> HIDE DEF n, V
<1>3. step \in Steps(n, V)
  <2>1. \A p \in 1 .. n : \A t \in V : MakeAt(t, path, p) \in V
    BY <1>1, MakeAtType DEF n, V
  <2> HIDE DEF path
  <2> QED
    BY <2>1 DEF Steps
<1>4. \A p \in 1 .. n : \A t \in V : step[p][t] = MakeAt(t, path, p)
  OBVIOUS
<1>5. dirs \in V
  BY DEF V
<1> HIDE DEF step
<1>6. PICK f \in [0 .. n -> V] : Follows(f, n, dirs, step)
  BY <1>1, <1>3, <1>5, StepwiseExists
<1>7. Is(f)
  <2>1. \A p \in 0 .. n : f[p] = IF p = 0 THEN dirs ELSE MakeAt(f[p - 1], path, p)
    <3>1. f[0] = dirs /\ \A p \in 1 .. n : f[p] = step[p][f[p - 1]]
      BY <1>6 DEF Follows
    <3>2. /\ \A p \in 1 .. n : p - 1 \in 0 .. n
          /\ \A p \in 0 .. n : p # 0 => p \in 1 .. n
      BY <1>1
    <3>3. \A p \in 1 .. n : f[p - 1] \in V
      BY <3>2
    <3> HIDE DEF path
    <3> QED
      BY <1>4, <3>1, <3>2, <3>3
  <2> QED
    BY <2>1 DEF n
<1>8. Is(After)
  <2>1. \E g : Is(g)
    BY <1>7
  <2> QED
    BY <2>1
<1> HIDE DEF After
<1>9. \A p \in 0 .. n : After[p] = IF p = 0 THEN dirs ELSE MakeAt(After[p - 1], path, p)
  BY <1>8 DEF n
<1> DEFINE T == {p \in Nat : p <= n => Done(dirs, After[p], path, p)}
<1>10. 0 \in T
  <2>1. After[0] = dirs
    BY <1>1, <1>9
  <2>2. SubSeq(path, 1, 0) = <<>>
    BY SubSeqEmpty
  <2>3. Reach(dirs, path, 0) = Start(path)
    BY <1>1, <2>2, NamesEmpty, WalkEmpty, StartResolved DEF Reach
  <2>4. Start(path) # Missing
    BY <1>1, StartResolved, ResolvedExists
  <2>5. \A q \in 0 .. 0 : q = 0
    OBVIOUS
  <2> HIDE DEF path
  <2>6. Done(dirs, After[0], path, 0)
    BY <2>1, <2>3, <2>4, <2>5 DEF Done
  <2> QED
    BY <2>6
<1>11. ASSUME NEW p \in T PROVE p + 1 \in T
  <2> SUFFICES ASSUME p + 1 <= n PROVE Done(dirs, After[p + 1], path, p + 1)
    OBVIOUS
  <2>1. p \in Nat /\ p <= n /\ p + 1 \in 1 .. n /\ p + 1 \in 0 .. n /\ p + 1 # 0 /\ (p + 1) - 1 = p
    BY <1>1
  <2>2. Done(dirs, After[p], path, p)
    BY <1>11, <2>1
  <2>3. After[p + 1] = MakeAt(After[p], path, p + 1)
    BY <1>9, <2>1
  <2> DEFINE k == p + 1
  <2>4. k \in 1 .. Len(path) /\ k - 1 = p
    BY <2>1 DEF n
  <2> HIDE DEF k, path
  <2>5. Done(dirs, MakeAt(After[p], path, k), path, k)
    BY <2>2, <2>4, MakeAtDone DEF path
  <2> QED
    BY <2>3, <2>5 DEF k
<1>12. n \in T
  <2>1. T \in SUBSET Nat
    OBVIOUS
  <2> HIDE DEF T
  <2>2. T = Nat
    BY <1>10, <1>11, <2>1, NatInd
  <2> QED
    BY <1>1, <2>2
<1>13. n <= n
  BY <1>1
<1> QED
  BY <1>2, <1>12, <1>13 DEF n

-----------------------------------------------------------------------------
(* The directory of a file, and the name of the file in it.                *)
LEMMA PathOf ==
  ASSUME NEW file, Slashed(file), file # <<>>, Last(file) # "/"
  PROVE  \/ /\ getPath(file) = Dot
            /\ ~Contains(file, "/")
         \/ \E e \in 1 .. Len(file) :
              /\ getPath(file) = SubSeq(file, 1, e)
              /\ file[e] = "/"
              /\ SubSeq(file, e + 1, Len(file)) \in Text
              /\ Names(file) = Append(Names(getPath(file)), SubSeq(file, e + 1, Len(file)))
<1> DEFINE n == Len(file)
           Seps == {p \in DOMAIN file : file[p] \in Separators}
<1>1. file \in Text /\ n \in Nat /\ n > 0 /\ DOMAIN file = 1 .. n
  BY DEF Slashed, Text
<1>2. \A p \in 1 .. n : p \in Seps <=> file[p] = "/"
  BY <1>1, SlashedSeparators
<1>3. Seps \subseteq 1 .. n
  BY <1>1
<1>4. getPath(file) = IF Seps = {} THEN Dot
                      ELSE SubSeq(file, 1, CHOOSE p \in Seps : \A q \in Seps : q <= p)
  BY DEF getPath
<1> HIDE DEF Seps
<1>5. CASE Seps = {}
  BY <1>2, <1>4, <1>5 DEF Contains
<1>6. CASE Seps # {}
  <2>1. PICK e \in 0 .. n : Ends(file, e) /\ \A j \in e + 1 .. n : file[j] # "/"
    <3>1. n \in 0 .. Len(file)
      BY <1>1
    <3> QED
      BY <1>1, <3>1, LastEnd
  <2>2. PICK p \in Seps : TRUE
    BY <1>6
  <2>3. e \in 1 .. n /\ file[e] = "/"
    <3>1. e # 0
      BY <1>1, <1>2, <1>3, <2>1, <2>2
    <3> QED
      BY <1>1, <2>1, <3>1 DEF Ends
  <2>4. e \in Seps /\ \A q \in Seps : q <= e
    <3>1. e \in Seps
      BY <1>2, <2>3
    <3>2. ASSUME NEW q \in Seps PROVE q <= e
      <4>1. q \in 1 .. n /\ file[q] = "/"
        BY <1>2, <1>3
      <4>2. q \notin e + 1 .. n
        BY <2>1, <4>1
      <4> QED
        BY <1>1, <2>3, <4>1, <4>2
    <3> QED
      BY <3>1, <3>2
  <2>5. (CHOOSE p1 \in Seps : \A q \in Seps : q <= p1) = e
    <3> DEFINE c == CHOOSE p1 \in Seps : \A q \in Seps : q <= p1
    <3>1. c \in Seps /\ \A q \in Seps : q <= c
      BY <2>4
    <3> HIDE DEF c
    <3>2. c <= e /\ e <= c /\ c \in Nat /\ e \in Nat
      BY <1>1, <1>3, <2>3, <2>4, <3>1
    <3>3. c = e
      BY <3>2
    <3> QED
      BY <3>3 DEF c
  <2>6. getPath(file) = SubSeq(file, 1, e)
    BY <1>4, <1>6, <2>5
  <2>7. e # n
    BY <2>3 DEF Last
  <2>8. e \in 0 .. Len(file) /\ n \in e + 1 .. Len(file) /\ Ends(file, e)
    <3>1. Len(file) = n
      OBVIOUS
    <3>2. Ends(file, e)
      BY <2>1
    <3> HIDE DEF n
    <3>3. e \in 0 .. n /\ n \in e + 1 .. n
      BY <1>1, <2>3, <2>7
    <3> QED
      BY <3>1, <3>2, <3>3
  <2>9. /\ Names(SubSeq(file, 1, n)) = Append(Names(SubSeq(file, 1, e)), SubSeq(file, e + 1, n))
        /\ SubSeq(file, e + 1, n) \in Text
    BY <1>1, <2>1, <2>8, NamesBetween
  <2>10. SubSeq(file, 1, n) = file
    BY <1>1, SubSeqFull DEF Text
  <2> QED
    BY <2>3, <2>6, <2>9, <2>10
<1> QED
  BY <1>5, <1>6

(* The front of names with one more.                                       *)
LEMMA FrontAppend ==
  ASSUME NEW names \in Seq(Text), NEW name \in Text
  PROVE  /\ Front(Append(names, name)) = names
         /\ Len(Append(names, name)) - 1 = Len(names)
         /\ \A n \in 1 .. Len(names) :
              SubSeq(Append(names, name), 1, n) = SubSeq(names, 1, n)
<1>1. Append(names, name) = names \o <<name>> /\ <<name>> \in Seq(Text)
  BY AppendIsConcat
<1>2. \A n \in 1 .. Len(names) : SubSeq(names \o <<name>>, 1, n) = SubSeq(names, 1, n)
  <2>1. \A n \in 1 .. Len(names) : 1 \in 1 .. Len(names)
    OBVIOUS
  <2> QED
    BY <1>1, <2>1, SubSeqOfConcat1
<1>3. Len(Append(names, name)) = Len(names) + 1 /\ Len(names) \in Nat
  BY AppendProperties
<1>4. Len(Append(names, name)) - 1 = Len(names)
  BY <1>3
<1>5. SubSeq(Append(names, name), 1, Len(names)) = names
  <2>1. CASE Len(names) = 0
    <3>1. names = <<>> /\ SubSeq(Append(names, name), 1, 0) = <<>>
      BY <2>1, SubSeqEmpty
    <3> QED
      BY <2>1, <3>1
  <2>2. CASE Len(names) # 0
    <3>1. Len(names) \in 1 .. Len(names)
      BY <1>3, <2>2
    <3> QED
      BY <1>1, <1>2, <3>1, SubSeqFull
  <2> QED
    BY <2>1, <2>2
<1> QED
  BY <1>1, <1>2, <1>4, <1>5 DEF Front

(* FileSinker makes the place of its file, and nothing but what the path   *)
(* of it goes through.                                                     *)
LEMMA SinkerOpens ==
  ASSUME NEW dirs \in SUBSET Dir, NEW file, Slashed(file), NamesFile(file)
  PROVE  /\ HasPlace(FileSinker(dirs, file), file)
         /\ FileSinker(dirs, file) \ dirs \subseteq OnTheWay(FileSinker(dirs, file), file)
<1> DEFINE made == FileSinker(dirs, file)
           path == getPath(file)
<1>1. file \in Text /\ file # <<>> /\ Last(file) # "/" /\ Resolved(Start(file))
  BY StartResolved DEF Slashed, NamesFile
<1>2. CASE path = Dot /\ ~Contains(file, "/")
  <2>1. Names(Dot) = <<Dot>>
    <3>1. ~Contains(Dot, "/")
      <4>1. Len(Dot) = 1 /\ Dot[1] = "."
        BY DEF Dot
      <4> QED
        BY <4>1 DEF Contains
    <3> QED
      BY <3>1, DotTexts, NamesAlone
  <2>2. Resolved(Start(Dot)) /\ Start(Dot) \in Dir
    BY DotTexts, StartResolved
  <2>3. Walk(dirs, Start(Dot), <<Dot>>) = Start(Dot)
    <3>1. Append(<<>>, Dot) = <<Dot>> /\ <<>> \in Seq(Text)
      OBVIOUS
    <3>2. Walk(dirs, Start(Dot), <<>>) = Start(Dot)
      BY <2>2, WalkEmpty
    <3> DEFINE none == <<>>
    <3>3. none \in Seq(Text) /\ Dot \in Text
      BY <3>1, DotTexts
    <3> HIDE DEF none
    <3>4. Walk(dirs, Start(Dot), Append(none, Dot)) = Into(dirs, Walk(dirs, Start(Dot), none), Dot)
      BY <2>2, <3>3, WalkAppend
    <3>5. Into(dirs, Start(Dot), Dot) = Start(Dot)
      BY DEF Into
    <3> QED
      BY <3>1, <3>2, <3>4, <3>5 DEF none
  <2>4. exists(dirs, path)
    BY <1>2, <2>1, <2>2, <2>3, ResolvedExists DEF exists
  <2>5. made = dirs
    BY <2>4 DEF FileSinker
  <2>6. Names(file) = <<file>> /\ Front(<<file>>) = <<>>
    <3>1. Front(<<file>>) = <<>>
      BY SubSeqEmpty DEF Front
    <3> QED
      BY <1>1, <1>2, <3>1, NamesAlone
  <2>7. HasPlace(dirs, file)
    BY <1>1, <2>6, WalkEmpty, ResolvedExists DEF HasPlace, Directory, Resolved
  <2> HIDE DEF made
  <2> QED
    BY <2>5, <2>7 DEF made
<1>3. ASSUME NEW e \in 1 .. Len(file),
             path = SubSeq(file, 1, e), file[e] = "/",
             NEW name \in Text, Names(file) = Append(Names(path), name)
      PROVE  HasPlace(made, file) /\ made \ dirs \subseteq OnTheWay(made, file)
  <2>1. /\ path \in Text /\ Len(path) = e /\ path[e] = "/" /\ e \in Nat /\ e # 0
        /\ Slashed(path) /\ Start(path) = Start(file) /\ Names(path) \in Seq(Text)
    <3>1. e \in 0 .. Len(file) /\ e \in 1 .. e /\ e \in Nat /\ e # 0
      BY <1>1 DEF Text
    <3>2. /\ path \in Text /\ Len(path) = e
          /\ \A j \in 1 .. e : path[j] = file[j]
      BY <1>1, <1>3, <3>1, Beginnings
    <3>3. Start(path) = Start(file)
      BY <1>1, <1>3, StartResolved
    <3>4. \A j \in 1 .. e : j \in 1 .. Len(file)
      BY <1>1 DEF Text
    <3> HIDE DEF path
    <3>5. Slashed(path)
      BY <3>2, <3>4 DEF Slashed, Contains
    <3> QED
      BY <1>3, <3>1, <3>2, <3>3, <3>5, NamesTypes
  <2>2. /\ Front(Names(file)) = Names(path)
        /\ Len(Names(file)) - 1 = Len(Names(path))
        /\ \A n \in 1 .. Len(Names(path)) : SubSeq(Names(file), 1, n) = SubSeq(Names(path), 1, n)
    BY <1>3, <2>1, FrontAppend
  <2>3. \A x : HasPlace(x, file) <=> Walk(x, Start(path), Names(path)) # Missing
    BY <2>1, <2>2 DEF HasPlace, Directory
  <2>4. CASE exists(dirs, path)
    <3>1. made = dirs
      BY <2>4 DEF FileSinker
    <3>2. HasPlace(dirs, file)
      BY <2>3, <2>4 DEF exists
    <3> HIDE DEF made
    <3> QED
      BY <3>1, <3>2
  <2>5. CASE ~exists(dirs, path)
    <3>1. made = createDir(dirs, file)
      BY <2>5 DEF FileSinker
    <3>2. Done(dirs, made, path, Len(path))
      BY <2>1, <2>5, <3>1, CreateDirDone
    <3> HIDE DEF made, path
    <3>3. HasPlace(made, file)
      <4>1. e \in 0 .. Len(path) /\ Ends(path, e)
        BY <2>1 DEF Ends
      <4>2. Reach(made, path, e) # Missing
        BY <3>2, <4>1 DEF Done
      <4>3. SubSeq(path, 1, e) = path
        BY <2>1, SubSeqFull DEF Text
      <4> QED
        BY <2>3, <4>2, <4>3 DEF Reach
    <3>4. ASSUME NEW d \in made \ dirs PROVE d \in OnTheWay(made, file)
      <4>1. Passed(made, path, d)
        BY <3>2 DEF Done
      <4>2. PICK n \in 1 .. Len(Names(path)) :
              d = Walk(made, Start(path), SubSeq(Names(path), 1, n))
        BY <4>1 DEF Passed
      <4>3. n \in 0 .. Len(Names(file)) - 1
        BY <2>1, <2>2
      <4>4. d = Walk(made, Start(file), SubSeq(Names(file), 1, n))
        BY <2>1, <2>2, <4>2
      <4> QED
        BY <4>3, <4>4 DEF OnTheWay
    <3> QED
      BY <3>3, <3>4
  <2> QED
    BY <2>4, <2>5
<1>4. \/ path = Dot /\ ~Contains(file, "/")
      \/ \E e \in 1 .. Len(file) :
           /\ path = SubSeq(file, 1, e)
           /\ file[e] = "/"
           /\ SubSeq(file, e + 1, Len(file)) \in Text
           /\ Names(file) = Append(Names(path), SubSeq(file, e + 1, Len(file)))
  BY <1>1, PathOf
<1> QED
  BY <1>2, <1>3, <1>4

-----------------------------------------------------------------------------
(* The cookies of Cookies are sound.                                       *)
LEMMA CookiesSound ==
  ASSUME NEW cookies \in Cookies
  PROVE  /\ Len(cookies) \in Nat
         /\ DOMAIN cookies = 1 .. Len(cookies)
         /\ \A i \in 1 .. Len(cookies) : Sound(cookies[i])
<1>1. cookies \in Seq(Cookie)
  BY TextsAssumption
<1>2. /\ Len(cookies) \in Nat /\ DOMAIN cookies = 1 .. Len(cookies)
      /\ \A i \in 1 .. Len(cookies) : cookies[i] \in Cookie
  BY <1>1
<1>3. ASSUME NEW i \in 1 .. Len(cookies) PROVE Sound(cookies[i])
  <2>1. cookies[i].name \in Text /\ cookies[i].value \in Text
    BY <1>2, StringTexts DEF Cookie
  <2> QED
    BY <1>2, <2>1, TextsAssumption DEF Sound
<1> QED
  BY <1>2, <1>3

(* What is answered does not change: the question is one of Questions, and *)
(* the answer, once there is one, is that of the program.                  *)
Answers ==
  /\ question \in Questions
  /\ Answered("cookie") => answer = <<GetCookieValueByKey(Header(question.of), Key)>>
  /\ Answered("format") =>
       answer = <<fillItems(question.of).ok, run(fillItems(question.of).items)>>
  /\ Answered("sink") => answer = <<FileSinker(question.disk, question.of)>>

(* The answers are the program's in every reachable state.                 *)
LEMMA AnswersInvariant == TextSpec => []Answers
<1>1. TextInit => Answers
  BY DEF TextInit, Answers, Answered
<1>2. ASSUME Answers, [TextNext]_textVars PROVE Answers'
  <2>1. CASE UNCHANGED textVars
    BY <1>2, <2>1 DEF Answers, Answered, textVars
  <2>2. CASE FindCookie /\ UNCHANGED question
    BY <1>2, <2>2 DEF Answers, Answered, FindCookie
  <2>3. CASE FormatLine /\ UNCHANGED question
    BY <1>2, <2>3 DEF Answers, Answered, FormatLine
  <2>4. CASE OpenSink /\ UNCHANGED question
    BY <1>2, <2>4 DEF Answers, Answered, OpenSink
  <2> QED
    BY <1>2, <2>1, <2>2, <2>3, <2>4 DEF TextNext
<1> QED
  BY <1>1, <1>2, PTL DEF TextSpec

(* Every format of a logger is parsed by the rules of its documentation,   *)
(* however long it is: the constructor of Formatter passes its assertion   *)
(* exactly when each mark has a letter, and a line then has, place by      *)
(* place, what the rules say.                                              *)
THEOREM FormatsAlwaysAsDocumented == TextSpec => []FormatsAsDocumented
<1>1. Answers => FormatsAsDocumented
  <2> SUFFICES ASSUME Answers, Answered("format")
               PROVE  IF WellFormed(question.of) THEN answer = <<TRUE, Line(question.of)>>
                      ELSE answer[1] = FALSE
    BY DEF FormatsAsDocumented
  <2>1. question.of \in Text
    <3>1. question.of \in Formats
      BY DEF Answers, Answered, Questions
    <3> QED
      BY <3>1, TextsAssumption, StringTexts
  <2> DEFINE parsed == fillItems(question.of)
  <2>2. answer = <<parsed.ok, run(parsed.items)>>
    BY DEF Answers
  <2>3. /\ parsed.ok \in BOOLEAN
        /\ parsed.ok <=> WellFormed(question.of)
        /\ WellFormed(question.of) => run(parsed.items) = Line(question.of)
    BY <2>1, FillItemsParses DEF Parsed
  <2> HIDE DEF parsed
  <2>4. CASE WellFormed(question.of)
    <3>1. parsed.ok = TRUE
      BY <2>3, <2>4
    <3> QED
      BY <2>2, <2>3, <2>4, <3>1
  <2>5. CASE ~WellFormed(question.of)
    <3>1. parsed.ok = FALSE
      BY <2>3, <2>5
    <3> QED
      BY <2>2, <2>5, <3>1
  <2> QED
    BY <2>4, <2>5
<1> QED
  BY <1>1, AnswersInvariant, PTL

(* For any cookies in any order a request is taken for the session of the  *)
(* first cookie of the name, if the value of that can be a number.         *)
THEOREM CookieIsAlwaysFound == TextSpec => []CookieIsFound
<1>1. Answers => CookieIsFound
  <2> SUFFICES ASSUME Answers, Answered("cookie")
               PROVE  LET named == Named(question.of, Key)
                      IN  IF named = {} THEN answer = <<NotFound>>
                          ELSE LET value == question.of[Min(named)].value
                               IN  value = <<>> \/ Contains(value, "=") \/ answer = <<value>>
    BY DEF CookieIsFound
  <2> DEFINE cookies == question.of
  <2>1. cookies \in Cookies
    BY DEF Answers, Answered, Questions
  <2>2. answer = <<GetCookieValueByKey(Header(cookies), Key)>>
    BY DEF Answers
  <2>3. /\ Len(cookies) \in Nat /\ DOMAIN cookies = 1 .. Len(cookies)
        /\ \A i \in 1 .. Len(cookies) : Sound(cookies[i])
    BY <2>1, CookiesSound
  <2> HIDE DEF cookies
  <2> DEFINE named == Named(cookies, Key)
             found == GetCookieValueByKey(Header(cookies), Key)
             value == cookies[Min(named)].value
  <2>4. /\ named = {} => found = NotFound
        /\ named # {} => value = <<>> \/ Contains(value, "=") \/ found = value
    BY <2>3, LookupFinds
  <2> HIDE DEF named, found, value
  <2>5. IF named = {} THEN answer = <<NotFound>>
        ELSE value = <<>> \/ Contains(value, "=") \/ answer = <<value>>
    BY <2>2, <2>4 DEF found
  <2> QED
    BY <2>5 DEF named, value, cookies
<1> QED
  BY <1>1, AnswersInvariant, PTL

(* For any file named by an absolute or a relative path, whatever          *)
(* directories there are, the constructor of FileSinker makes no directory *)
(* but those that the path goes through, and passes its assertion that the *)
(* file is open if the name is not that of a directory: one that was there *)
(* or one of those.                                                        *)
THEOREM SinksAlwaysOpen == TextSpec => []SinksOpen
<1>1. Answers => SinksOpen
  <2> SUFFICES ASSUME Answers, Answered("sink"),
                      NamesFile(question.of), ~Contains(question.of, "\\")
               PROVE  LET after == answer[1]
                          way   == OnTheWay(after, question.of)
                      IN  /\ Target(after, question.of) \notin question.disk \cup way
                               => CanOpen(after, question.of)
                          /\ after \ question.disk \subseteq way
    BY DEF SinksOpen
  <2> DEFINE file == question.of
             dirs == question.disk
  <2>1. file \in Files /\ dirs \in Disks
    BY DEF Answers, Answered, Questions
  <2>2. answer[1] = FileSinker(dirs, file)
    BY DEF Answers
  <2>3. NamesFile(file) /\ ~Contains(file, "\\")
    OBVIOUS
  <2> HIDE DEF file, dirs
  <2>4. Slashed(file)
    BY <2>1, <2>3, TextsAssumption, StringTexts DEF Slashed
  <2>5. dirs \in SUBSET Dir
    <3>1. dirs \subseteq Seq(Seq(STRING))
      BY <2>1, TextsAssumption
    <3>2. Seq(Seq(STRING)) \subseteq Seq(Text)
      BY StringTexts, SeqMonotonic
    <3> QED
      BY <3>1, <3>2 DEF Dir
  <2> DEFINE made == FileSinker(dirs, file)
             way  == OnTheWay(made, file)
  <2>6. HasPlace(made, file) /\ made \ dirs \subseteq way
    BY <2>3, <2>4, <2>5, SinkerOpens
  <2>7. Target(made, file) \notin dirs \cup way => CanOpen(made, file)
    <3> HIDE DEF made, way
    <3> QED
      BY <2>6 DEF CanOpen
  <2> HIDE DEF made
  <2> QED
    BY <2>2, <2>6, <2>7 DEF file, dirs, made
<1> QED
  BY <1>1, AnswersInvariant, PTL

=============================================================================
