----------------------------- MODULE Formatter ------------------------------
(***************************************************************************)
(* Class Formatter (src/mylog/format.hpp): a format is parsed once into    *)
(* items; a line of the log is what the items write one after the other.   *)
(***************************************************************************)
EXTENDS Integers, SequencesExt

CONSTANT Info   \* the text of each field of a log message: letter -> text

Fields == {"t", "c", "n", "i", "f", "l", "m"}

Spaces == [S |-> <<" ">>, T |-> <<"\t">>, N |-> <<"\n">>]

Letters == Fields \cup DOMAIN Spaces \cup {"%"}

ASSUME InfoAssumption == Info \in [Fields -> Seq(STRING)]

(* The items that fillItems makes: a piece of text, or what a letter       *)
(* stands for.                                                             *)
Other(text) == [type |-> "other", text |-> text]
Item(letter) == IF letter = "%" THEN Other(<<"%">>) ELSE [type |-> letter]

(* Where the text that begins at i ends.                                   *)
TextEnd(format, i) ==
  CHOOSE j \in i .. Len(format) :
    /\ \A k \in i .. j : format[k] # "%"
    /\ j = Len(format) \/ format[j + 1] = "%"

Failed == [ok |-> FALSE, items |-> <<>>]
Prepend(item, rest) == [rest EXCEPT !.items = <<item>> \o @]

(* Variant for the mutation runs: an escaped % may begin a letter.         *)
fillItemsAgain(format) ==
  LET n == Len(format)
      From[i \in 1 .. n + 2] ==
        IF i > n THEN [ok |-> TRUE, items |-> <<>>]
        ELSE IF format[i] # "%"
        THEN Prepend(Other(SubSeq(format, i, TextEnd(format, i))),
                     From[TextEnd(format, i) + 1])
        ELSE IF i = n \/ format[i + 1] \notin Letters THEN Failed
        ELSE Prepend(Item(format[i + 1]),
                     From[IF format[i + 1] = "%" /\ i + 1 < n THEN i + 1 ELSE i + 2])
  IN  From[1]

(* fillItems.  (The items before a failure do not matter: the assertion in *)
(* the constructor ends the process.)                                      *)
fillItems(format) ==
  LET n == Len(format)
      From[i \in 1 .. n + 2] ==
        IF i > n THEN [ok |-> TRUE, items |-> <<>>]
        ELSE IF format[i] # "%"
        THEN Prepend(Other(SubSeq(format, i, TextEnd(format, i))),
                     From[TextEnd(format, i) + 1])
        ELSE IF i = n \/ format[i + 1] \notin Letters THEN Failed
        ELSE Prepend(Item(format[i + 1]), From[i + 2])
  IN  From[1]

getItem(item) ==
  IF item.type = "other" THEN item.text
  ELSE IF item.type \in Fields THEN Info[item.type] ELSE Spaces[item.type]

run(items) == FlattenSeq([i \in DOMAIN items |-> getItem(items[i])])

-----------------------------------------------------------------------------
(* The rules of the comment at format.hpp:168-182, place by place: a % is  *)
(* the mark of the letter behind it unless it is itself marked.            *)
Marks(format) ==
  LET Mark[i \in 0 .. Len(format)] ==
        i > 0 /\ format[i] = "%" /\ ~Mark[i - 1]
  IN  {i \in DOMAIN format : Mark[i]}

WellFormed(format) ==
  \A i \in Marks(format) : i < Len(format) /\ format[i + 1] \in Letters

Line(format) ==
  FlattenSeq([i \in DOMAIN format |->
    IF i \in Marks(format) THEN <<>>
    ELSE IF i - 1 \in Marks(format) THEN getItem(Item(format[i]))
    ELSE <<format[i]>>])

=============================================================================
