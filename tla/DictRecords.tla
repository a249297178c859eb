---------------------------- MODULE DictRecords ----------------------------
(***************************************************************************)
(* The dictionary as a file of records: what convert (hw6/part3) writes,   *)
(* and how the lookups of hw6/part3 and hw11 search it.  A word is a       *)
(* number, its place in dictionary order; a text is the sequence of the    *)
(* lines of a definition.  A field is filled up with blanks in the file    *)
(* that convert writes, and with nulls in the fixrec of hw11, which comes  *)
(* with the programs: each search is for fields of one kind.               *)
(***************************************************************************)
EXTENDS Integers, Sequences, SequencesExt, FiniteSets, FiniteSetsExt

CONSTANTS TextMax   \* the lines of text that a record has room for

ASSUME TextMaxAssumption == TextMax \in Nat \ {0}

Blank    == 0        \* an empty line
NotFound == <<-1>>   \* NOTFOUND
Mark     == -3       \* the text "XXXX"
Junk     == -4       \* what follows a text that has no end
Crash    == <<-2>>   \* a null pointer is used

Blanks == "blanks"   \* what fills a field up
Nulls  == "nulls"

\* What a table says of a word: the text of its first record of it.
Entry(table, word) ==
  LET hits == {i \in DOMAIN table : table[i].word = word}
  IN IF hits = {} THEN NotFound ELSE table[Min(hits)].text
---------------------------------------------------------------------------
(* convert.c *)

\* A line is a word, or belongs to the definition of the last one, up to a blank
\* line.  What there is no room for is cut off.  A blank line in place of a word
\* has no token, which ends the program.
ReadLine(file, line) ==
  CASE file.crashed -> file
    [] ~file.crashed /\ file.inText /\ line = Blank -> [file EXCEPT !.inText = FALSE]
    [] ~file.crashed /\ file.inText /\ line # Blank ->
         LET n == Len(file.records)
         IN IF Len(file.records[n].text) = TextMax THEN file
            ELSE [file EXCEPT !.records[n].text = Append(@, line)]
    [] ~file.crashed /\ ~file.inText /\ line = Blank -> [file EXCEPT !.crashed = TRUE]
    [] OTHER -> [file EXCEPT !.inText = TRUE,
                             !.records = Append(@, [word |-> line, text |-> <<>>])]

\* The file that convert writes for these lines, of which it has read the first n.
Convert(lines) ==
  LET file[n \in 0 .. Len(lines)] ==
        IF n = 0 THEN [records |-> <<>>, inText |-> FALSE, crashed |-> FALSE]
        ELSE ReadLine(file[n - 1], lines[n])
  IN file[Len(lines)]
---------------------------------------------------------------------------
(* lookup1.c: from the top of the file to the first record of the word *)

\* The word that is sought is filled up with blanks, as the words of convert's file
\* are.  A record with an empty text has no token, so that a null pointer is copied.
Linear(table, word) ==
  LET hits == {i \in DOMAIN table : table[i].word = word}
  IN CASE hits = {} -> NotFound
       [] hits # {} /\ table[Min(hits)].text = <<>> -> Crash
       [] OTHER -> table[Min(hits)].text
---------------------------------------------------------------------------
(* lookup5.c: bsearch in the records, which dict_cmp compares by strcmp *)

\* strcmp ends at the null after a word, and a blank comes after the null that ends
\* the word that is sought: that word comes before a field with blanks.
Before(word, field, pad) == word < field \/ (word = field /\ pad = Blanks)

\* Among the r[2] records from r[1] on, which are in the order of their words.  What
\* is found has a text that ends with a null, which strcpy copies.
Binary(table, pad, word) ==
  LET ranges == {r \in (1 .. Len(table) + 1) \X (0 .. Len(table)) : r[1] + r[2] <= Len(table) + 1}
      search[r \in ranges] ==
        LET half == r[2] \div 2
            mid  == r[1] + half
        IN IF r[2] = 0 THEN NotFound
           ELSE IF Before(word, table[mid].word, pad) THEN search[<<r[1], half>>]
           ELSE IF word > table[mid].word THEN search[<<mid + 1, r[2] - half - 1>>]
           ELSE table[mid].text
  IN search[<<1, Len(table)>>]
===========================================================================
