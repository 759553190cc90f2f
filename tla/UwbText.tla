------------------------------- MODULE UwbText ------------------------------
(***************************************************************************)
(* The text a request becomes on the UWB link, and how it is read again:   *)
(* Uwb::Handle::serialize_http_request and parse_http_request              *)
(* (src/src/Master/src/uwb/UwbHandle.cpp).  Characters are their codes.    *)
(***************************************************************************)
EXTENDS Integers, Sequences, SequencesExt

LF == 10
CR == 13
Space == 32
Colon == 58
BackSlash == 92
LetterN == 110
LetterR == 114

NoRequest == [method |-> "NONE"]

-----------------------------------------------------------------------------
(* serialize_http_request and parse_http_request *)

\* What is left of HTTP's words: one character stands for a method; path and version
\* are left out, and so is the field Content-Length, which prepare_payload derives
\* from the body at both ends.
MethodChar == [GET |-> 71, POST |-> 80, PUT |-> 85, DELETE |-> 68, PATCH |-> 72]

\* operator<< of the request: request line, header fields, blank line, body.
FieldText(f) == f[1] \o <<Colon, Space>> \o f[2] \o <<CR, LF>>
Text(r) == <<MethodChar[r.method], CR, LF>>
             \o FlattenSeq([i \in DOMAIN r.fields |-> FieldText(r.fields[i])])
             \o <<CR, LF>> \o r.body

EscapeChar(c) ==
  CASE c = CR -> <<BackSlash, LetterR>>
    [] c = LF -> <<BackSlash, LetterN>>
    [] c = BackSlash -> <<BackSlash, BackSlash>>
    [] OTHER -> <<c>>
Escape(text) == FlattenSeq([i \in DOMAIN text |-> EscapeChar(text[i])])

serialize_http_request(r) == Escape(Text(r))

\* What the character behind a backslash stands for.
Unescaped(c) ==
  CASE c = LetterR -> <<CR>>
    [] c = LetterN -> <<LF>>
    [] c = BackSlash -> <<BackSlash>>
    [] OTHER -> <<BackSlash, c>>

\* One pass from the left: what a character c does after those before it.  A
\* backslash at the end stands for itself.
UnescapeChar(s, c) ==
  [esc |-> ~s.esc /\ c = BackSlash,
   out |-> s.out \o (IF s.esc THEN Unescaped(c) ELSE IF c = BackSlash THEN <<>> ELSE <<c>>)]
Unescape(data) ==
  LET s[k \in 0..Len(data)] ==
        IF k = 0 THEN [out |-> <<>>, esc |-> FALSE] ELSE UnescapeChar(s[k - 1], data[k])
      end == s[Len(data)] IN
  IF end.esc THEN Append(end.out, BackSlash) ELSE end.out

\* std::getline until the text is used up, and the CR before each line end removed.
Chomp(line) == IF line # <<>> /\ Last(line) = CR THEN Front(line) ELSE line
LineChar(ls, c) ==
  IF c = LF THEN Append(ls, <<>>) ELSE Append(Front(ls), Append(Last(ls), c))
SplitLines(text) ==
  LET ls[k \in 0..Len(text)] ==
        IF k = 0 THEN << <<>> >> ELSE LineChar(ls[k - 1], text[k])
      lines == ls[Len(text)] IN
  [i \in DOMAIN lines |-> Chomp(lines[i])]

\* Spaces before and after the value of a field are dropped.
Trim(v) ==
  LET ink == {i \in DOMAIN v : v[i] # Space} IN
  IF ink = {} THEN <<>>
  ELSE SubSeq(v, CHOOSE i \in ink : \A j \in ink : i <= j,
                 CHOOSE i \in ink : \A j \in ink : i >= j)

\* The four methods the parser knows; any other is http::verb::unknown.
MethodOf(line) ==
  LET known == {w \in {"GET", "POST", "PUT", "DELETE"} : line = <<MethodChar[w]>>} IN
  IF known = {} THEN "unknown" ELSE CHOOSE w \in known : TRUE

\* A line without a colon is no field.
IsField(line) == Contains(line, Colon)
FieldOf(line) ==
  LET colon == SelectInSeq(line, LAMBDA c : c = Colon) IN
  <<SubSeq(line, 1, colon - 1), Trim(SubSeq(line, colon + 1, Len(line)))>>

\* req.set: a field takes the place of the one of that name, in either case of
\* letters, and becomes the last.
Lower(c) == IF c \in 65..90 THEN c + 32 ELSE c
SameName(v, w) == Len(v) = Len(w) /\ \A i \in 1..Len(v) : Lower(v[i]) = Lower(w[i])
Without(fields, name) == SelectSeq(fields, LAMBDA f : ~SameName(f[1], name))
SetField(fields, f) ==
  LET same == {i \in 1..Len(fields) : SameName(fields[i][1], f[1])} IN
  Append(IF same = {} THEN fields ELSE Without(fields, f[1]), f)

FieldsOf(lines) ==
  LET fs[k \in 0..Len(lines)] ==
        IF k = 0 THEN <<>>
        ELSE IF IsField(lines[k]) THEN SetField(fs[k - 1], FieldOf(lines[k]))
        ELSE fs[k - 1]
  IN fs[Len(lines)]

\* The head ends at the first blank line; without one the request is refused.
parse_http_request(data) ==
  LET text == Unescape(data)
      ends == {i \in 1..(Len(text) - 3) : SubSeq(text, i, i + 3) = <<CR, LF, CR, LF>>}
      cut == CHOOSE i \in ends : \A j \in ends : i <= j
      lines == SplitLines(SubSeq(text, 1, cut - 1))
      empty == SelectInSeq(lines, LAMBDA l : l = <<>>)
      head == IF empty = 0 THEN lines ELSE SubSeq(lines, 1, empty - 1) IN
  IF ends = {} THEN NoRequest
  ELSE [method |-> IF head = <<>> THEN "unknown" ELSE MethodOf(head[1]),
        fields |-> FieldsOf(SubSeq(head, 2, Len(head))),
        body |-> SubSeq(text, cut + 4, Len(text))]
=============================================================================
