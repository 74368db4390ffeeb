---------------------------- MODULE HTTPStrings ----------------------------
(***************************************************************************)
(* StringHelper (lib/http/httpparser.hpp) and the operations of            *)
(* std::string it is written with.  A string is a sequence of symbols;     *)
(* positions count the symbols before them, as in the code.                *)
(***************************************************************************)
EXTENDS Integers, Sequences, Functions, FiniteSetsExt

npos == -1

\* s.substr(pos, n), which is cut at the end of s, and s.substr(pos).
substr(s, pos, n) ==
  SubSeq(s, pos + 1, IF pos + n < Len(s) THEN pos + n ELSE Len(s))

rest(s, pos) == SubSeq(s, pos + 1, Len(s))

Occurrences(s, Delimiter) ==
  {k \in 0 .. Len(s) - Len(Delimiter) :
     \A j \in 1 .. Len(Delimiter) : s[k + j] = Delimiter[j]}

\* s.find(Delimiter, pos) and s.find(Delimiter)
findFrom(s, Delimiter, pos) ==
  LET at == {k \in Occurrences(s, Delimiter) : k >= pos}
  IN  IF at = {} THEN npos ELSE Min(at)

find(s, Delimiter) == findFrom(s, Delimiter, 0)

\* The last occurrence that starts at pos or before.
rfind(s, Delimiter, pos) ==
  LET at == {k \in Occurrences(s, Delimiter) : k <= pos}
  IN  IF at = {} THEN npos ELSE Max(at)

has(s, Delimiter) == find(s, Delimiter) # npos

-----------------------------------------------------------------------------
\* Mutant of split: the part is copied out and not erased.
splitKept(s, Delimiter) ==
  [parts |-> IF has(s, Delimiter) THEN <<substr(s, 0, find(s, Delimiter))>>
             ELSE <<>>,
   left |-> s]

(***************************************************************************)
(* The destructive split: the parts, and what is left of the string.  The  *)
(* loop is a function of the number of symbols that are left.              *)
(***************************************************************************)
SplitLoop(s, Delimiter) ==
  LET loop[n \in 0 .. Len(s)] ==
        LET t == rest(s, Len(s) - n)
            pos == find(t, Delimiter)
            next == loop[n - (pos + Len(Delimiter))]
        IN  IF pos = npos THEN [parts |-> <<>>, left |-> t]
            ELSE [next EXCEPT !.parts = <<substr(t, 0, pos)>> \o @]
  IN  loop

split(s, Delimiter) == SplitLoop(s, Delimiter)[Len(s)]

\* Mutant of splitView: what follows the last delimiter is forgotten.
splitViewShort(s, Delimiter) == split(s, Delimiter).parts

\* The split into views, which ends with the remainder unless it is empty.
splitView(s, Delimiter) ==
  LET cut == split(s, Delimiter)
  IN  IF cut.left = <<>> THEN cut.parts ELSE Append(cut.parts, cut.left)

(***************************************************************************)
(* rsplit: the parts of the first StartPos symbols, last part first.  A    *)
(* string without the delimiter gives one empty part.                      *)
(***************************************************************************)
RsplitLoop(s, Delimiter) ==
  LET n == Len(Delimiter)
      loop[pos \in 0 .. Len(s)] ==
        LET FindPos == rfind(s, Delimiter, pos)
            part == substr(s, FindPos + n, pos - FindPos)
        IN  IF FindPos = npos THEN <<substr(s, 0, pos + n)>>
            ELSE IF FindPos < n THEN <<part, substr(s, 0, FindPos)>>
            ELSE <<part>> \o loop[FindPos - n]
  IN  loop

rsplit(s, StartPos, Delimiter) ==
  LET pos == StartPos - Len(Delimiter)
  IN  IF pos < 0 THEN <<substr(s, 0, StartPos)>>
      ELSE IF rfind(s, Delimiter, pos) = npos THEN <<<<>>>>
      ELSE RsplitLoop(s, Delimiter)[pos]

Digits == <<"0", "1", "2", "3", "4", "5", "6", "7", "8", "9">>

is_digits(s) == Range(s) \subseteq Range(Digits)

digit(d) == (CHOOSE k \in 1 .. 10 : Digits[k] = d) - 1

\* The number std::stoi reads, before it is held against the range of int.
Number(s) ==
  LET value[k \in 0 .. Len(s)] ==
        IF k = 0 THEN 0 ELSE 10 * value[k - 1] + digit(s[k])
  IN  value[Len(s)]

(***************************************************************************)
(* The map that unordered_map::emplace, called in this order for the pairs *)
(* at the given places, builds: an entry that is there is kept.            *)
(***************************************************************************)
emplace(pairs, places) ==
  {pairs[k] : k \in {j \in places :
                       \A i \in places : i < j => pairs[i][1] # pairs[j][1]}}
=============================================================================
