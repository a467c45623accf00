------------------------------ MODULE TextUtil ------------------------------
(***************************************************************************)
(* util::string::split (src/util.hpp) and the lookup of a cookie by its    *)
(* name (src/server.hpp), which is made of it.  A text is a sequence of    *)
(* characters; a character is a string.                                    *)
(***************************************************************************)
EXTENDS Integers, SequencesExt

(* std::string::find: where sep occurs first from idx on, 0 if nowhere.    *)
find(src, sep, idx) ==
  LET At == {p \in idx .. Len(src) - Len(sep) + 1 :
               SubSeq(src, p, p + Len(sep) - 1) = sep}
  IN  IF At = {} THEN 0 ELSE CHOOSE p \in At : \A q \in At : p <= q

split(src, sep) ==
  LET From[idx \in 1 .. Len(src) + Len(sep)] ==
        LET pos == find(src, sep, idx)
        IN  IF idx > Len(src) THEN <<>>
            ELSE IF pos = 0 THEN <<SubSeq(src, idx, Len(src))>>
            ELSE IF pos = idx THEN From[idx + Len(sep)]
            ELSE <<SubSeq(src, idx, pos - 1)>> \o From[pos + Len(sep)]
  IN  From[1]

(* false, and the value untouched: no value found is empty.               *)
NotFound == <<>>

Splits(pair)     == split(pair, <<"=">>)
IsKey(pair, key) == Len(Splits(pair)) = 2 /\ Splits(pair)[1] = key

FirstValue(pairs, key) ==
  LET Keyed == {i \in DOMAIN pairs : IsKey(pairs[i], key)}
  IN  IF Keyed = {} THEN NotFound ELSE Splits(pairs[Min(Keyed)])[2]

(* Variant for the mutation runs: the space stays with the next name.      *)
GetCookieValueBySpacedKey(cookie, key) == FirstValue(split(cookie, <<";">>), key)

(* __GetCookieValueByKey: what does not split into a name and a value is   *)
(* passed over.                                                            *)
GetCookieValueByKey(cookie, key) == FirstValue(split(cookie, <<";", " ">>), key)

-----------------------------------------------------------------------------
(* The header a browser sends for some cookies, and those of them that     *)
(* have some name.                                                         *)
Pair(cookie) == cookie.name \o <<"=">> \o cookie.value

Header(cookies) ==
  FlattenSeq([i \in DOMAIN cookies |->
    (IF i = 1 THEN <<>> ELSE <<";", " ">>) \o Pair(cookies[i])])

Named(cookies, name) == {i \in DOMAIN cookies : cookies[i].name = name}

=============================================================================
