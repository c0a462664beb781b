---------------------------- MODULE MCHttpRouter ----------------------------
(***************************************************************************)
(* Small instances of HttpRouter: a root that is rewritten to an index     *)
(* file, an application's page and a target without a route.               *)
(***************************************************************************)
EXTENDS HttpRouter, TLC

Targets == {"root", "index", "page", "missing"}
Files == {"index"}

ToIndex == [t \in Targets |-> IF t = "root" THEN "index" ELSE t]

RouteTo(ts, mws, h) ==
    [targets |-> ts, mws |-> mws, handler |-> h, keys_fit |-> TRUE]
Use(m, p) == [call |-> "use", mw |-> m, pos |-> p]
Route(e) == [call |-> "route", entry |-> e]

(* An application that can answer what is not found and what fails, and    *)
(* goes on setting up its router while requests come in: two detectors,    *)
(* one of them after the rewriting, and handlers of each kind.             *)
Ready ==
    [middleware |-> <<[mw |-> "mime", pos |-> 0]>>,
     routes |-> <<RouteTo({"page"}, <<"mime">>, "files")>>,
     notfound |-> TRUE, error |-> TRUE]

Setup ==
    {Use("rewrite", 10), Use("mime", 20), Use("throws", 20),
     Route(RouteTo({"root", "index"}, <<"logger", "later">>, "typed")),
     Route(RouteTo({"index", "page"}, <<"mime">>, "ends_throws")),
     Route([RouteTo({"missing"}, <<>>, "throws") EXCEPT !.keys_fit = FALSE])}

(* The example application: detector, rewriting, files. *)
Example ==
    [middleware |-> <<[mw |-> "logger", pos |-> 0], [mw |-> "mime", pos |-> 0],
                      [mw |-> "rewrite", pos |-> 10]>>,
     routes |-> <<RouteTo({"index"}, <<>>, "files")>>,
     notfound |-> FALSE, error |-> FALSE]

ExampleUpdates ==
    {[call |-> "notfound"], Use("mime", 20), Route(RouteTo({"page"}, <<"mime">>, "ends"))}

=============================================================================
