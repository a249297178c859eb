---------------------------- MODULE MCDictionary ----------------------------
(* Dictionary on a small instance: see the .cfg files.                     *)
EXTENDS Dictionary

CONSTANTS c1, c2, c3, s1, s2

\* Five words in order; the first has more text than a record holds, and the last
\* has none.
MCLines == <<10, 100, 101, 102, Blank, 20, 200, Blank, 30, 300, Blank, 40, 400, 401, Blank, 50>>

\* Six records for the servers, in order, one of them full.
MCFixrec ==
  [pad |-> Nulls,
   records |-> <<[word |-> 10, text |-> <<110, 111>>], [word |-> 20, text |-> <<210>>],
                 [word |-> 30, text |-> <<310>>], [word |-> 35, text |-> <<>>],
                 [word |-> 40, text |-> <<410>>], [word |-> 50, text |-> <<510>>]>>]

\* The first word, the last, one in the middle, and some that are in one file or none.
MCQuestions ==
  [c \in Clients |-> CASE c = c1 -> <<10, 35>> [] c = c2 -> <<30, 45>> [] c = c3 -> <<50, 20>>]

\* What the theorem about RightAnswers assumes of the files, and what the theorems
\* conclude about the searches.
ASSUME MCFilesOK == TextOK /\ FixrecOK
ASSUME MCSearchesFind == SearchesFind
ASSUME MCConvertedNotFound ==
  \A c \in Clients : \A i \in DOMAIN Questions[c] : Binary(Table, Blanks, Questions[c][i]) = NotFound
===========================================================================
