-------------------------------- MODULE Uri --------------------------------
(***************************************************************************)
(* Resources, their queries, and the coding of characters (uri.cpp).  A    *)
(* text is a sequence of bytes.                                            *)
(***************************************************************************)
EXTENDS Naturals, SequencesExt

Percent == 37
Amp == 38
Dot == 46
Slash == 47
Equal == 61
Question == 63
Digit == 48 .. 57
Lower == 97 .. 122
Upper == 65 .. 90
Wrong == 256       \* no byte: invalid_uri_exception was thrown

Byte == 0 .. 255
Text == Seq(Byte)

(* The first c of s from i on, or else the end behind s. *)
Find(c, s, i) ==
    IF \E j \in i .. Len(s) : s[j] = c
    THEN CHOOSE j \in i .. Len(s) : s[j] = c /\ \A k \in i .. j - 1 : s[k] # c
    ELSE Len(s) + 1

(* The last c of s, or else 0. *)
LastOf(c, s) ==
    IF \E j \in 1 .. Len(s) : s[j] = c
    THEN CHOOSE j \in 1 .. Len(s) : s[j] = c /\ \A k \in j + 1 .. Len(s) : s[k] # c
    ELSE 0

Before(s, i) == SubSeq(s, 1, i - 1)
After(s, i) == SubSeq(s, i + 1, Len(s))

(* The pieces between the c's of s, but for those to be dropped.           *)
Close(before, dropped) ==
    IF before.open \in dropped THEN before.pieces ELSE Append(before.pieces, before.open)

Pieces(c, s, dropped) ==
    LET cut[i \in 0 .. Len(s)] ==
            IF i = 0 THEN [pieces |-> <<>>, open |-> <<>>]
            ELSE IF s[i] = c THEN [pieces |-> Close(cut[i - 1], dropped), open |-> <<>>]
            ELSE [pieces |-> cut[i - 1].pieces, open |-> Append(cut[i - 1].open, s[i])]
    IN  Close(cut[Len(s)], dropped)

(* The names in a path: an empty piece means nothing, and so does a dot.   *)
Names(path) == Pieces(Slash, path, {<<>>, <<Dot>>})

(* Names put together, each with a slash behind it. *)
Joined(names) == FlattenSeq([i \in 1 .. Len(names) |-> Append(names[i], Slash)])

-----------------------------------------------------------------------------
(* A mistaken form of a definition below.                                  *)

BugUnreserved == Digit \cup Lower \cup Upper \cup {45, 95, Dot, 126, Amp}

-----------------------------------------------------------------------------
HexValue(c) ==
    CASE c \in Digit -> c - 48
      [] c \in 65 .. 70 -> c - 55
      [] c \in 97 .. 102 -> c - 87
      [] OTHER -> Wrong

(* Behind the last byte of a std::string there is a zero. *)
At(s, i) == IF i \in 1 .. Len(s) THEN s[i] ELSE 0

HexByte(c, d) ==
    IF Wrong \in {HexValue(c), HexValue(d)} THEN Wrong ELSE 16 * HexValue(c) + HexValue(d)

(* url_decode: a byte is read, or passed over as a digit of the last one. *)
Read(s, i, before) ==
    IF before.digits > 0
    THEN [before EXCEPT !.digits = @ - 1]
    ELSE IF s[i] # Percent
    THEN [res |-> Append(before.res, s[i]), digits |-> 0]
    ELSE [res |-> Append(before.res, HexByte(At(s, i + 1), At(s, i + 2))), digits |-> 2]

Decoded(s) ==
    LET read[i \in 0 .. Len(s)] ==
            IF i = 0 THEN [res |-> <<>>, digits |-> 0] ELSE Read(s, i, read[i - 1])
    IN  read[Len(s)].res

(* url_encode. *)
Unreserved == Digit \cup Lower \cup Upper \cup {45, 95, Dot, 126}
HexDigit(n) == IF n < 10 THEN 48 + n ELSE 87 + n

Code(c) ==
    IF c \in Unreserved THEN <<c>> ELSE <<Percent, HexDigit(c \div 16), HexDigit(c % 16)>>

Encoded(s) ==
    LET res[i \in 0 .. Len(s)] == IF i = 0 THEN <<>> ELSE res[i - 1] \o Code(s[i])
    IN  res[Len(s)]

(* A parameter: its key and value. *)
Param(part) ==
    LET i == Find(Equal, part, 1) IN <<Before(part, i), After(part, i)>>

(* The loop that takes a query or a form apart: a turn takes the part up   *)
(* to the next '&', and nothing is left for the turns after the last.      *)
Turn(s, before) ==
    LET pos == Find(Amp, s, before.offset)
        part == SubSeq(s, before.offset, pos - 1)
    IN  [offset |-> pos + 1,
         params |-> IF part = <<>> THEN before.params ELSE Append(before.params, Param(part))]

Params(s) ==
    LET turn[n \in 0 .. Len(s) + 1] ==
            IF n = 0 THEN [offset |-> 1, params |-> <<>>] ELSE Turn(s, turn[n - 1])
    IN  turn[Len(s) + 1].params

(* parse_formdata: unlike those of a resource's query, keys and values are *)
(* decoded.  The multimap it returns is the sequence of what is inserted.  *)
FormData(s) ==
    LET params == Params(s)
    IN  [i \in 1 .. Len(params) |-> <<Decoded(params[i][1]), Decoded(params[i][2])>>]

(* The constructor. *)
IsUri(s) == s # <<>> /\ s[1] = Slash

Path(s) == Before(s, Find(Question, s, 1))

Query(s) == Params(After(s, Find(Question, s, 1)))

=============================================================================
