------------------------------- MODULE Texts --------------------------------
(***************************************************************************)
(* The algorithms of the program on texts, each asked once and answered:   *)
(* the session cookie among the cookies of a request, the lines of a log   *)
(* with some format, the directory of a log file.                          *)
(***************************************************************************)
EXTENDS FileUtil, Formatter

CONSTANTS Cookies, Key,   \* lists of cookies, and the name "SID"
          Formats,        \* formats of a logger
          Files, Disks    \* names of log files; what directories there are

(* Names and values as they can be in the header of a request.             *)
Cookie == [name : Seq(STRING), value : Seq(STRING)]

ASSUME TextsAssumption ==
  /\ Formats \subseteq Seq(STRING)
  /\ Cookies \subseteq Seq(Cookie)
  /\ \A cookies \in Cookies : \A i \in DOMAIN cookies :
       /\ cookies[i].name # <<>>
       /\ ~Contains(cookies[i].name, "=") /\ ~Contains(cookies[i].name, ";")
       /\ ~Contains(cookies[i].value, ";")
  /\ Files \subseteq Seq(STRING)
  /\ Disks \subseteq SUBSET Seq(Seq(STRING))

VARIABLES question, answer

textVars == <<question, answer>>

Unanswered == <<>>

Questions ==
  [ask : {"cookie"}, of : Cookies] \cup [ask : {"format"}, of : Formats]
    \cup [ask : {"sink"}, of : Files, disk : Disks]

TextInit == question \in Questions /\ answer = Unanswered

FindCookie ==
  /\ question.ask = "cookie"
  /\ answer' = <<GetCookieValueByKey(Header(question.of), Key)>>

(* The constructor of Formatter asserts that fillItems succeeds.           *)
FormatLine ==
  /\ question.ask = "format"
  /\ LET parsed == fillItems(question.of)
     IN  answer' = <<parsed.ok, run(parsed.items)>>

OpenSink ==
  /\ question.ask = "sink"
  /\ answer' = <<FileSinker(question.disk, question.of)>>

TextNext ==
  /\ answer = Unanswered
  /\ FindCookie \/ FormatLine \/ OpenSink
  /\ UNCHANGED question

TextSpec == TextInit /\ [][TextNext]_textVars

-----------------------------------------------------------------------------
Answered(ask) == question.ask = ask /\ answer # Unanswered

(* Whatever other cookies the browser has, with names that contain the key *)
(* and values that contain it, or = signs, the session is found by the     *)
(* first cookie of that name, provided the value of that is a number.      *)
CookieIsFound ==
  Answered("cookie") =>
    LET named == Named(question.of, Key)
    IN  IF named = {} THEN answer = <<NotFound>>
        ELSE LET value == question.of[Min(named)].value
             IN  value = <<>> \/ Contains(value, "=") \/ answer = <<value>>

(* The scanning by runs of characters does what the rules say place by     *)
(* place: it fails only on a % that marks nothing, and what a field        *)
(* contains is never taken for a mark.                                     *)
FormatsAsDocumented ==
  Answered("format") =>
    IF WellFormed(question.of) THEN answer = <<TRUE, Line(question.of)>>
    ELSE answer[1] = FALSE

(* Whatever directories there are, and however the path winds through      *)
(* them, the assertion that the file is open holds, and no directory is    *)
(* made but those on its way: unless the name is itself that of a          *)
(* directory, one that was there or one that the path goes through and for *)
(* which it may have been made.  (A name made of backslashes alone is      *)
(* overlooked, as the code takes these for separators and the system does  *)
(* not.)                                                                   *)
SinksOpen ==
  Answered("sink") /\ NamesFile(question.of) /\ ~Contains(question.of, "\\") =>
    LET after == answer[1]
        way   == OnTheWay(after, question.of)
    IN  /\ Target(after, question.of) \notin question.disk \cup way
             => CanOpen(after, question.of)
        /\ after \ question.disk \subseteq way

=============================================================================
