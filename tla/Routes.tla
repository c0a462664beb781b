------------------------------- MODULE Routes -------------------------------
(***************************************************************************)
(* The pattern of a route, what it matches and the parameters it takes     *)
(* (parse_route, build_route_regex and route_params of http/router.cpp).   *)
(* The regular expression of a parameter is that of serve_dir, which any   *)
(* text without line ends matches; lazy and greedy come to the same when   *)
(* it comes last.                                                          *)
(***************************************************************************)
EXTENDS Naturals, SequencesExt, Uri

Backslash == 92
OpenBrace == 123
CloseBrace == 125
Colon == 58
LineEnd == {10, 13}

(* \ . * + ? ^ $ { } ( ) | [ ] *)
Escaped == <<Backslash, 46, 42, 43, 63, 94, 36, 123, 125, 40, 41, 124, 91, 93>>

-----------------------------------------------------------------------------
(* A mistaken form of a definition below.                                  *)

BugEscaped == Tail(Escaped) \o <<Backslash>>

-----------------------------------------------------------------------------
Info(part) ==
    LET inner == SubSeq(part, 2, Len(part) - 1)
        i == Find(Colon, inner, 1)
    IN  CASE part[1] = OpenBrace /\ Last(part) = CloseBrace ->
                [type |-> IF i > Len(inner) THEN "match_all" ELSE "regex",
                 param |-> Before(inner, i), str |-> <<>>]
          [] part[1] = Colon -> [type |-> "match_all", param |-> Tail(part), str |-> <<>>]
          [] OTHER -> [type |-> "equals", param |-> <<>>, str |-> part]

parse_route(uri) ==
    LET parts == Pieces(Slash, uri, {<<>>})
    IN  [i \in 1 .. Len(parts) |-> Info(parts[i])]

(* ttl::string::replace, once for each character, in their order. *)
Order == Escaped

Replaced(s, c) ==
    FlattenSeq([i \in 1 .. Len(s) |-> IF s[i] = c THEN <<Backslash, c>> ELSE <<s[i]>>])

Quoted(s) ==
    LET str[i \in 0 .. Len(Order)] == IF i = 0 THEN s ELSE Replaced(str[i - 1], Order[i])
    IN  str[Len(Order)]

(* What a regular expression without groups matches: a quoted character    *)
(* itself, "." all but line ends, and whatever else is special nothing of  *)
(* interest here.  Scan is one character of the expression, chars what s   *)
(* has given to it.                                                        *)
Scan(before, c, s) ==
    LET i == before.chars + 1
    IN  IF c = Backslash /\ ~before.quoted THEN [before EXCEPT !.quoted = TRUE]
        ELSE [quoted |-> FALSE, chars |-> i,
              fits |-> /\ before.fits /\ i <= Len(s)
                       /\ IF c = Dot /\ ~before.quoted THEN s[i] \notin LineEnd
                          ELSE c = s[i] /\ (before.quoted \/ c \notin ToSet(Escaped))]

Reads(regex, s) ==
    LET scan[i \in 0 .. Len(regex)] ==
            IF i = 0 THEN [quoted |-> FALSE, chars |-> 0, fits |-> TRUE]
            ELSE Scan(scan[i - 1], regex[i], s)
    IN  scan[Len(regex)] = [quoted |-> FALSE, chars |-> Len(s), fits |-> TRUE]

OneLine(s) == \A i \in 1 .. Len(s) : s[i] \notin LineEnd

Fits(info, s) ==
    CASE info.type = "equals" -> Reads(Quoted(info.str), s)
      [] info.type = "match_all" -> s # <<>> /\ Find(Slash, s, 1) > Len(s)
      [] OTHER -> OneLine(s)

(* How a path is shared out: it is cut at slashes, the first of them among *)
(* these, and the i-th part of the pattern takes what is between the i-th  *)
(* cut and the next.                                                       *)
Share(path, cuts, i) == SubSeq(path, cuts[i] + 1, cuts[i + 1] - 1)

Cuts(infos, path) ==
    LET n == Len(infos)
        end == Len(path) + 1
    IN  {cuts \in [1 .. n + 1 -> {i \in 1 .. end : i = end \/ path[i] = Slash}] :
            /\ cuts[1] = 1 /\ cuts[n + 1] = end
            /\ \A i \in 1 .. n : cuts[i] < cuts[i + 1] /\ Fits(infos[i], Share(path, cuts, i))}

Shares(infos, path) ==
    {[i \in 1 .. Len(infos) |-> Share(path, cuts, i)] : cuts \in Cuts(infos, path)}

Matches(infos, path) ==
    IF infos = <<>> THEN path = <<Slash>> ELSE Shares(infos, path) # {}

(* The parameters of a path that matches. *)
has_param(infos, key) == \E i \in 1 .. Len(infos) : infos[i].param = key /\ key # <<>>

get_param(infos, path, key) ==
    LET share == CHOOSE s \in Shares(infos, path) : TRUE
        i == CHOOSE j \in 1 .. Len(infos) :
                infos[j].param = key /\ \A k \in j + 1 .. Len(infos) : infos[k].param # key
    IN  share[i]

=============================================================================
