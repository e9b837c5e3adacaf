------------------------------ MODULE SqlStream ------------------------------
(***************************************************************************)
(* A dump on its way to scratch databases: it is read in chunks, cut after *)
(* the last complete statement (backup.service.ts, rewritePitrSqlFile and  *)
(* validatePitrSqlFile), and each piece is searched for references to the  *)
(* databases of the source (pitr.utils.ts).  Two programs decide what is a *)
(* string or a comment: a scanner for the cut, regular expressions for the *)
(* search.                                                                 *)
(*                                                                         *)
(* A text is a sequence of characters, where "ref" stands for the name of  *)
(* a database of the source and its dot, and "new" for what replaces it.   *)
(***************************************************************************)
EXTENDS Naturals, Sequences, SequencesExt, FiniteSets

CONSTANTS
  Alphabets,    \* sets of characters; a text is of one of them
  MaxText, MaxChunk,
  MaxStatement  \* the code's 8 MiB

VARIABLES
  alphabet,
  text,         \* what has been read
  carry,        \* of it, what is not yet a statement
  written, found,   \* the rewritten pieces; how many references validation saw
  stage

streamVars == <<alphabet, text, carry, written, found, stage>>

StreamInit ==
  /\ alphabet \in Alphabets
  /\ text = <<>> /\ carry = <<>> /\ written = <<>> /\ found = 0
  /\ stage = "reading"

-----------------------------------------------------------------------------
(* The scanner *)

Quotes == {"'", "double", "backtick"}

At(s, i) == IF i \in DOMAIN s THEN s[i] ELSE "end"

\* One character: an escape, a doubled quote and the end of a comment take two.
Scan(st, now, next, after, i) ==
  CASE st.skip -> [st EXCEPT !.skip = FALSE]
    [] ~st.skip /\ st.mode = "line" -> IF now = "newline" THEN [st EXCEPT !.mode = "code"] ELSE st
    [] ~st.skip /\ st.mode = "block" ->
         IF now = "*" /\ next = "/" THEN [st EXCEPT !.mode = "code", !.skip = TRUE] ELSE st
    [] ~st.skip /\ st.mode \in Quotes ->
         IF now = "backslash" \/ (now = st.mode /\ next = now) THEN [st EXCEPT !.skip = TRUE] ELSE
         IF now = st.mode THEN [st EXCEPT !.mode = "code"] ELSE st
    [] OTHER ->
         IF now = "-" /\ next = "-" /\ after \in {"blank", "newline"} THEN [st EXCEPT !.mode = "line", !.skip = TRUE] ELSE
         IF now = "hash" THEN [st EXCEPT !.mode = "line"] ELSE
         IF now = "/" /\ next = "*" THEN [st EXCEPT !.mode = "block", !.skip = TRUE] ELSE
         IF now \in Quotes THEN [st EXCEPT !.mode = now] ELSE
         IF now = ";" THEN [st EXCEPT !.boundary = i] ELSE st

\* With a bug: behind the last semicolon, in a string or a comment too.
BoundaryAnywhere(s) == FoldLeftDomain(LAMBDA last, i : IF s[i] = ";" THEN i ELSE last, 0, s)

\* lastSqlStatementBoundary(): its state after each character, and behind the last
\* semicolon of code.
Scanned(s) ==
  LET after[i \in 0 .. Len(s)] ==
        IF i = 0 THEN [mode |-> "code", skip |-> FALSE, boundary |-> 0]
        ELSE Scan(after[i - 1], s[i], At(s, i + 1), At(s, i + 2), i)
  IN after

Boundary(s) == Scanned(s)[Len(s)].boundary

-----------------------------------------------------------------------------
(* The regular expressions, on the characters of s up to n *)

\* Where a string whose contents go on at k ends, or 0: an escape is tried first, then
\* a doubled quote, then any other character, and the choices are taken back when
\* no quote is left to end the string.
StringEnds(s, q, n) ==
  LET end[k \in Nat] ==
        LET escaped == IF k < n /\ s[k] = "backslash" /\ s[k + 1] # "newline" THEN end[k + 2] ELSE 0
            doubled == IF k < n /\ s[k] = q /\ s[k + 1] = q THEN end[k + 2] ELSE 0
            other == IF s[k] # q THEN end[k + 1] ELSE k
        IN IF k > n THEN 0 ELSE IF escaped # 0 THEN escaped ELSE IF doubled # 0 THEN doubled ELSE other
  IN end

FirstIn(S) == IF S = {} THEN 0 ELSE CHOOSE k \in S : \A l \in S : k <= l

Is(s, i, n, word) == i + Len(word) - 1 <= n /\ \A j \in DOMAIN word : s[i + j - 1] = word[j]

LineEnd(s, k, n) == FirstIn({l \in k .. n : l = n \/ s[l + 1] = "newline"})

\* SQL_PROTECTED_PARTS: the end of the string or the comment that starts at i, or 0.
\* A name in backticks is code.
PartEnd(s, i, n) ==
  CASE s[i] \in {"'", "double"} -> StringEnds(s, s[i], n)[i + 1]
    [] Is(s, i, n, <<"/", "*">>) -> FirstIn({k + 1 : k \in {k \in i + 2 .. n - 1 : Is(s, k, n, <<"*", "/">>)}})
    [] Is(s, i, n, <<"-", "-", "blank">>) -> LineEnd(s, i + 2, n)
    [] s[i] = "hash" -> LineEnd(s, i, n)
    [] OTHER -> 0

\* sqlCodeMask(), stripSqlCommentsAndStrings(): the positions of code; the contents of
\* a comment that the server executes are split on their own.
Codes(s) ==
  LET code[p \in (1 .. Len(s) + 1) \X (0 .. Len(s))] ==
        LET i == p[1]
            n == p[2]
            end == PartEnd(s, i, n)
        IN IF i > n THEN {} ELSE
           IF end = 0 THEN {i} \cup code[<<i + 1, n>>] ELSE
           (IF Is(s, i, n, <<"/", "*", "!">>) THEN code[<<i + 3, end - 2>>] ELSE {}) \cup code[<<end + 1, n>>]
  IN code

Code(s) == Codes(s)[<<1, Len(s)>>]

\* rewritePitrSqlDatabases()
Rewrite(s) ==
  LET code == Code(s) IN [i \in DOMAIN s |-> IF s[i] = "ref" /\ i \in code THEN "new" ELSE s[i]]

\* validatePitrSql()
References(s) == Cardinality({i \in Code(s) : s[i] = "ref"})

-----------------------------------------------------------------------------
(* The stream.  Validation and rewriting each read the file, and cut it alike. *)

Take(piece) == written' = written \o Rewrite(piece) /\ found' = found + References(piece)

Read(chunk) ==
  /\ stage = "reading" /\ Len(text) + Len(chunk) <= MaxText
  /\ LET combined == carry \o chunk
         boundary == Boundary(combined)
     IN /\ text' = text \o chunk
        /\ carry' = SubSeq(combined, boundary + 1, Len(combined))
        /\ IF Len(carry') > MaxStatement
           THEN stage' = "refused" /\ UNCHANGED <<written, found>>
           ELSE Take(SubSeq(combined, 1, boundary)) /\ UNCHANGED stage
  /\ UNCHANGED alphabet

Flush ==
  /\ stage = "reading" /\ stage' = "done"
  /\ Take(carry) /\ carry' = <<>>
  /\ UNCHANGED <<alphabet, text>>

StreamNext ==
  \/ Flush
  \/ \E n \in 1 .. MaxChunk : \E chunk \in [1 .. n -> alphabet] : Read(chunk)

StreamSpec == StreamInit /\ [][StreamNext]_streamVars

-----------------------------------------------------------------------------
\* No name in backticks has a quote or the beginning of a comment in it, which the
\* scanner skips and the regular expressions do not.
NamesArePlain(s) ==
  \A i \in DOMAIN s :
    Scanned(s)[i - 1].mode = "backtick" =>
      s[i] \notin {"'", "double", "hash"} /\ \A word \in {<<"/", "*">>, <<"-", "-", "blank">>} : ~Is(s, i, Len(s), word)

\* Wherever the file is cut into chunks, what is written is the whole file rewritten,
\* validation saw what it would have seen in the whole, and it finds nothing left:
\* the scanner ends a piece only where the regular expressions are in code, whatever
\* quotes, escapes and comments are open or never end, where the names are plain.
CutsDoNotMatter ==
  stage = "done" /\ NamesArePlain(text) =>
    written = Rewrite(text) /\ found = References(text) /\ References(written) = 0
=============================================================================
