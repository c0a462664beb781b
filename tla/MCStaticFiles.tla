--------------------------- MODULE MCStaticFiles ---------------------------
(***************************************************************************)
(* A directory with two files and a directory, in the two file systems;    *)
(* those with an entry that is neither; and one with nothing in it.        *)
(***************************************************************************)
EXTENDS StaticFiles

s == 115
p == 112
a == 97
d == 100

MCPrefix == <<Slash, s, Slash>>
MCDir == <<Dot, Slash, p, Slash>>

Name == [root |-> <<p, Slash>>, file |-> <<p, Slash, a>>,
         dir |-> <<p, Slash, d, Slash>>, inner |-> <<p, Slash, d, Slash, a, Dot, d>>]

Empty == Name.root :> "dir"
Tree == Empty @@ Name.file :> "v1" @@ Name.dir :> "dir" @@ Name.inner :> "v2"
Odd == Tree @@ <<p, Slash, s>> :> "special"
Deep == Tree @@ (Name.dir \o <<s>>) :> "special" @@ <<p, Slash, 10>> :> "v1"
        @@ <<p, Slash, a, Hash>> :> "v1" @@ <<p, Slash, a, 32>> :> "v2"

MCSites == [kind : {"os", "zip"}, contents : {Empty, Tree}] \cup [kind : {"os"}, contents : {Odd, Deep}]

(* Literal routes with a character that means something to a regular       *)
(* expression, a slash inside, and the root.                               *)
MCLiterals == {<<Slash>>, <<Slash, a, Dot, d>>, <<Slash, a, 43, Slash, d>>, <<Slash, Backslash, d>>}

(* Behind the prefix: names, slashes, dots, queries, an encoded slash.     *)
Rests == {<<>>, <<a>>, <<10>>, <<d>>, <<s>>, <<a, Slash>>, <<d, Slash>>, <<Slash, a>>,
          <<Slash, Slash, a>>, <<Dot, Slash, a>>, <<d, Slash, Dot>>, <<a, Slash, Dot>>,
          <<d, Slash, Slash>>, <<d, Slash, a, Dot, d>>, <<d, Slash, Slash, a, Dot, d>>,
          <<a, Question, a, Equal, d>>, <<d, Slash, Question, Slash>>,
          <<d, Percent, 50, 70, a, Dot, d>>}

Others == {<<>>, <<a>>, <<Slash, s>>, <<Slash, a, d, d>>, <<Slash, a, a, Slash, d>>,
           <<Slash, a, Dot, d, Slash>>, <<Slash, d>>, <<Slash, Dot, Dot, Dot>>,
           <<Slash, Question, Slash, s>>}

Resources == Others \cup MCLiterals \cup {MCPrefix \o r : r \in Rests}

(* Keys and values, with the characters that have a meaning in a form, a   *)
(* zero and one beyond ASCII.                                              *)
Word == {<<>>, <<a>>, <<Amp, Equal>>, <<Percent, 52, 49>>, <<0, 233>>, <<Equal, 43>>}
Forms == {<<<<k, v>>>> : k \in Word, v \in Word}
         \cup {<<<<k, v>>, <<v, k>>>> : k \in Word, v \in Word}

MCRequests ==
    [resource : Resources, since : {"none", "v1", "v2"}, form : {<<>>}]
    \cup [resource : {<<Slash>>}, since : {"none"}, form : Forms]

=============================================================================
