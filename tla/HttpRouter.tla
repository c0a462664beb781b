----------------------------- MODULE HttpRouter -----------------------------
(***************************************************************************)
(* The HTTP router (grpcbackend_cpp/src/http/router.cpp) with the          *)
(* middleware and the file handler that come with it.                      *)
(*                                                                         *)
(* The application configures the router while workers use it: an update   *)
(* copies the routing information, changes the copy and publishes it, one  *)
(* update at a time; a request takes the information published when it     *)
(* arrives and keeps it to its end.  The request goes through the global   *)
(* middleware, is matched with a route, and goes through the middleware of *)
(* the route to its handler; a middleware may keep the request and go on   *)
(* with it later.  mime_type and rewrite pass on a connection of their own *)
(* that wraps the one they got.  An exception becomes a response wherever  *)
(* it is caught: in do_routing with the connection that was routed, in     *)
(* on_request and in the connection's callbacks with the bare connection.  *)
(***************************************************************************)
EXTENDS Naturals, Sequences, FiniteSets

CONSTANTS
    Request,     \* the requests
    Target,      \* what a request asks for: method and path
    Typed,       \* targets whose extension has a MIME type
    Rewritten,   \* what the rewrite middleware makes of each target
    Update,      \* the calls that configure the router, each made once
    Initial,     \* the routing information it starts with
    ErrorThrows  \* whether the application's handlers for errors may throw

Middleware == {"logger", "mime", "rewrite", "later", "throws"}
Handler == {"ends", "typed", "throws", "ends_throws", "files"}
Entry == [targets : SUBSET Target, mws : Seq(Middleware), handler : Handler,
          keys_fit : BOOLEAN]
Step == [mw : Middleware, pos : 0 .. 20]
Info == [middleware : Seq(Step), routes : Seq(Entry),
         notfound : BOOLEAN, error : BOOLEAN]

Call == [call : {"use"}, mw : Middleware, pos : 0 .. 20]
        \cup [call : {"route"}, entry : Entry] \cup [call : {"notfound", "error"}]

ASSUME ConstantsOK ==
    /\ Typed \subseteq Target
    /\ Rewritten \in [Target -> Target]
    /\ Initial \in Info
    /\ \A i, j \in 1 .. Len(Initial.middleware) :
          i < j => Initial.middleware[i].pos <= Initial.middleware[j].pos
    /\ Update \subseteq Call
    /\ ErrorThrows \in BOOLEAN

VARIABLES
    routing,   \* the published routing information
    copy,      \* the updates in progress, each with the copy it changes
    applied,   \* history: the updates published, in order
    req        \* per request, where it is and what has become of it

vars == <<routing, copy, applied, req>>

NoEntry == [targets |-> {}, mws |-> <<>>, handler |-> "ends", keys_fit |-> TRUE]

NewRequest(t) ==
    [pc |-> "new",          \* where it is
     info |-> Initial,      \* the routing information it keeps
     entry |-> NoEntry,     \* the route it matched
     next |-> 1,            \* the next middleware of the chain it is in
     asked |-> t,           \* what the client asked for
     target |-> t,          \* what the connection passed on now says
     wraps |-> <<>>,        \* the wrappers around the connection, inside out
     typed |-> 0,           \* the wrappers that know the type is set
     types |-> 0,           \* Content-Type headers of the response
     routed |-> 0,          \* wrappers there were in do_routing
     guarded |-> FALSE,     \* inside the try block of do_routing
     body_read |-> FALSE,   \* the body has been read to its end
     status |-> 0,
     ends |-> 0,            \* times the response was ended
     again |-> 0,           \* history: by the application, when it had been
     ran |-> <<>>]          \* history: the middleware that saw it

Init ==
    /\ routing = Initial
    /\ copy = <<>>
    /\ applied = <<>>
    /\ req \in {[r \in Request |-> NewRequest(f[r])] : f \in [Request -> Target]}

-----------------------------------------------------------------------------
(* Mistaken forms of the definitions below, to see that the properties     *)
(* notice.                                                                 *)

BugNoMutex == TRUE
BugReadsAgain(q) == routing
BugNotAsked(q) == FALSE
BugAddsAlways(q, level) == \E i \in 1 .. level : q.wraps[i] = "mime"
BugEndsNothing(q, level) == q

-----------------------------------------------------------------------------
(* Updates.                                                                *)

(* The steps are sorted; a new one goes behind those of its position.      *)
Insert(steps, m, p) ==
    LET n == Cardinality({i \in 1 .. Len(steps) : steps[i].pos <= p})
    IN  SubSeq(steps, 1, n) \o <<[mw |-> m, pos |-> p]>> \o SubSeq(steps, n + 1, Len(steps))

Changed(info, u) ==
    CASE u.call = "use"      -> [info EXCEPT !.middleware = Insert(@, u.mw, u.pos)]
      [] u.call = "route"    -> [info EXCEPT !.routes = Append(@, u.entry)]
      [] u.call = "notfound" -> [info EXCEPT !.notfound = TRUE]
      [] u.call = "error"    -> [info EXCEPT !.error = TRUE]

Started(u) == (\E i \in 1 .. Len(applied) : applied[i] = u)
              \/ (\E i \in 1 .. Len(copy) : copy[i].by = u)

MutexFree == copy = <<>>

Load(u) ==
    /\ ~Started(u) /\ MutexFree
    /\ copy' = Append(copy, [by |-> u, info |-> routing])
    /\ UNCHANGED <<routing, applied, req>>

Store ==
    \E i \in 1 .. Len(copy) :
       /\ routing' = Changed(copy[i].info, copy[i].by)
       /\ applied' = Append(applied, copy[i].by)
       /\ copy' = SubSeq(copy, 1, i - 1) \o SubSeq(copy, i + 1, Len(copy))
       /\ UNCHANGED req

-----------------------------------------------------------------------------
(* Connections: what a call at a level, the number of wrappers it goes     *)
(* through, does to the response.                                          *)

(* set_header("Content-Type") tells every mime wrapper it goes through. *)
SetType(q, level) ==
    [q EXCEPT !.types = @ + 1, !.typed = IF level > @ THEN level ELSE @]

(* A mime wrapper that has seen no type adds its own before it ends. *)
AddsType(q, level) ==
    \E i \in 1 .. level : i > q.typed /\ q.wraps[i] = "mime"

Ended(q, level) ==
    LET p == IF AddsType(q, level) THEN SetType(q, level) ELSE q
    IN  [p EXCEPT !.ends = @ + 1]

WithStatus(q, s) == [q EXCEPT !.status = s]
At(q, where) == [q EXCEPT !.pc = where]
Becomes(r, q) == req' = [req EXCEPT ![r] = q] /\ UNCHANGED <<routing, copy, applied>>

-----------------------------------------------------------------------------
(* A request.                                                              *)

OnRequest(r) ==
    /\ req[r].pc = "new"
    /\ Becomes(r, [req[r] EXCEPT !.pc = "global", !.info = routing])

InfoOf(q) == q.info

GlobalOf(info) == [i \in 1 .. Len(info.middleware) |-> info.middleware[i].mw]

Chain(q) ==
    IF q.pc = "global" THEN GlobalOf(InfoOf(q)) ELSE q.entry.mws

(* What a middleware makes of the request it gets. *)
Passed(q, m) ==
    LET p == [q EXCEPT !.next = @ + 1, !.ran = Append(@, m)] IN
    CASE m = "mime" /\ q.target \in Typed ->
            [p EXCEPT !.wraps = Append(@, "mime")]
      [] m = "rewrite" /\ Rewritten[q.target] # q.target ->
            [p EXCEPT !.wraps = Append(@, "rewrite"), !.target = Rewritten[@]]
      [] m = "throws" ->
            At(p, "raised")
      [] m = "later" ->
            At(p, IF q.pc = "global" THEN "global_later" ELSE "local_later")
      [] OTHER -> p

(* mw_helper_global and mw_helper_local *)
MiddlewareStep(r) ==
    LET q == req[r] IN
    /\ q.pc \in {"global", "local"} /\ q.next <= Len(Chain(q))
    /\ Becomes(r, Passed(q, Chain(q)[q.next]))

(* A middleware that read the body goes on from the callback, where the    *)
(* try blocks of the router are left behind.                               *)
Resume(r) ==
    LET q == req[r] IN
    /\ q.pc \in {"global_later", "local_later"}
    /\ Becomes(r, [q EXCEPT !.pc = IF @ = "global_later" THEN "global" ELSE "local",
                            !.guarded = FALSE, !.body_read = TRUE])

(* The routes are tried in the order in which they were added. *)
Matching(info, t) == {i \in 1 .. Len(info.routes) : t \in info.routes[i].targets}
First(S) == CHOOSE i \in S : \A j \in S : i <= j

ChainDone(r, where) == req[r].pc = where /\ req[r].next > Len(Chain(req[r]))

(* The application's handler for what is not found or for errors answers,  *)
(* where there is one, and need not ask whether that was done before;      *)
(* otherwise only the status is set.                                       *)
Replies(q, s, asked, level) ==
    LET told == WithStatus(q, s) IN
    IF ~asked THEN {told}
    ELSE IF q.ends = 0 THEN {Ended(told, level)}
    ELSE {told, [Ended(told, level) EXCEPT !.again = @ + 1]}

(* ... or it throws, before or after that.                                 *)
Breaks(q, s, asked, level) ==
    IF asked /\ ErrorThrows THEN {WithStatus(q, s)} \cup Replies(q, s, asked, level) ELSE {}

(* do_routing without a route, or with one whose expression has groups of  *)
(* its own: nothing ends the response but the application.                 *)
Refuse(r, s, asked) ==
    LET level == Len(req[r].wraps) IN
    \/ \E p \in Replies(req[r], s, asked, level) : Becomes(r, At(p, "over"))
    \/ \E p \in Breaks(req[r], s, asked, level) : Becomes(r, At(p, "raised"))

DoRouting(r) ==
    LET q == req[r]
        found == Matching(InfoOf(q), q.target)
        e == InfoOf(q).routes[First(found)]
    IN  /\ ChainDone(r, "global")
        /\ \/ found = {} /\ Refuse(r, 404, q.info.notfound)
           \/ found # {} /\ ~e.keys_fit /\ Refuse(r, 500, q.info.error)
           \/ /\ found # {} /\ e.keys_fit
              /\ Becomes(r, [q EXCEPT !.pc = "local", !.next = 1, !.entry = e,
                                      !.routed = Len(q.wraps), !.guarded = TRUE])

(* The route's handler, on the connection it is given.  The file handler   *)
(* skips the body first, and answers in the callback.                      *)
Handle(r) ==
    LET q == req[r]
        h == q.entry.handler
        level == Len(q.wraps)
        ok == WithStatus(q, 200)
    IN  /\ ChainDone(r, "local")
        /\ Becomes(r,
             CASE h = "ends"        -> At(Ended(ok, level), "over")
               [] h = "typed"       -> At(Ended(SetType(ok, level), level), "over")
               [] h = "throws"      -> At(q, "raised")
               [] h = "ends_throws" -> At(Ended(ok, level), "raised")
               [] h = "files"       -> At(q, "skipping"))

(* The callback of skip_body gets the bare connection, not the one         *)
(* skip_body was called on.  A body that had been read already has the     *)
(* callback run at once, and again when the needless Read completes.       *)
FileAnswer(r) ==
    LET q == req[r]
        bare == [q EXCEPT !.guarded = FALSE]
    IN  /\ q.pc = "skipping"
        /\ \/ Becomes(r, [Ended(WithStatus(bare, 200), 0) EXCEPT
                             !.pc = IF q.body_read THEN "skipping" ELSE "over",
                             !.body_read = FALSE])
           \/ Becomes(r, At(bare, "not_found"))

IsFinished(q) == q.ends > 0

FinishError(q, level) == IF IsFinished(q) THEN q ELSE Ended(q, level)

(* What is thrown: an http_exception with a code, for which nobody may be  *)
(* asked, or anything else, which counts as an error of the server.        *)
Codes(q) == IF q.pc = "not_found" THEN {404} ELSE {403, 404, 500}

(* handle_exception: the application's handlers are asked whatever became  *)
(* of the response before; then it is ended if it was not.  One that       *)
(* throws is asked again by on_request for what do_routing caught.         *)
HandleException(r) ==
    LET q == req[r]
        level == IF q.guarded THEN q.routed ELSE 0
    IN  /\ q.pc \in {"raised", "not_found"}
        /\ \E s \in Codes(q) :
              LET asked == (s = 404 /\ q.info.notfound) \/ (s = 500 /\ q.info.error) IN
              \/ \E p \in Replies(q, s, asked, level) :
                    Becomes(r, At(FinishError(p, level), "over"))
              \/ \E p \in Breaks(q, s, asked, level) :
                    Becomes(r, IF q.guarded THEN [At(p, "raised") EXCEPT !.guarded = FALSE]
                                            ELSE At(p, "lost"))

-----------------------------------------------------------------------------
RequestStep(r) ==
    \/ MiddlewareStep(r) \/ Resume(r)
    \/ DoRouting(r) \/ Handle(r) \/ FileAnswer(r)
    \/ HandleException(r)

Next ==
    \/ \E u \in Update : Load(u)
    \/ Store
    \/ \E r \in Request : OnRequest(r) \/ RequestStep(r)

Spec == Init /\ [][Next]_vars

(* A request that has arrived goes on. *)
FairSpec == Spec /\ \A r \in Request : WF_vars(RequestStep(r))

-----------------------------------------------------------------------------
Has(info, u) ==
    CASE u.call = "use" ->
            \E i \in 1 .. Len(info.middleware) :
                info.middleware[i] = [mw |-> u.mw, pos |-> u.pos]
      [] u.call = "route" ->
            \E i \in 1 .. Len(info.routes) : info.routes[i] = u.entry
      [] u.call = "notfound" -> info.notfound
      [] u.call = "error"    -> info.error

(* No update is lost, whatever other updates are made at the same time. *)
UpdatesKept ==
    \A i \in 1 .. Len(applied) : Has(routing, applied[i])

(* What the middleware of an information make of a target, by definition.  *)
RewrittenTimes[n \in Nat] ==
    IF n = 0 THEN [t \in Target |-> t]
    ELSE [t \in Target |-> Rewritten[RewrittenTimes[n - 1][t]]]

Rewrites(mws) == Cardinality({i \in 1 .. Len(mws) : mws[i] = "rewrite"})

AfterRewrites(info, t) == RewrittenTimes[Rewrites(GlobalOf(info))][t]

(* However the router is reconfigured on the way, a request that reached a *)
(* route went through exactly the middleware of the information it took    *)
(* when it arrived, and then some of the route's, in their order, and its  *)
(* route is the first of that information that matches.                    *)
ServedBySnapshot ==
    \A r \in Request :
        LET q == req[r]
            global == GlobalOf(q.info)
            n == Len(q.ran) - Len(global)
            found == Matching(q.info, AfterRewrites(q.info, q.asked))
        IN  q.entry # NoEntry =>
              /\ n \in 0 .. Len(q.entry.mws)
              /\ q.ran = global \o SubSeq(q.entry.mws, 1, n)
              /\ found # {} /\ q.entry = q.info.routes[First(found)]

(* Updates and arrivals are those of a table that changes and is taken at  *)
(* one moment, although an update is a load, a change of the copy and a    *)
(* store, and requests run meanwhile with what they took.                  *)
Table == INSTANCE RoutingTable WITH
            table <- routing,
            made <- {applied[i] : i \in 1 .. Len(applied)},
            taken <- [r \in Request |-> IF req[r].pc = "new" THEN <<>> ELSE <<req[r].info>>]
ImplementsTable == Table!Spec

(* A response is ended once at most, and again only as often as the        *)
(* application's own handlers end, for an exception, what had been ended   *)
(* before: handle_exception does not ask them to look, and itself never    *)
(* ends a response twice.                                                  *)
EndedOnce == \A r \in Request : req[r].ends <= 1 + req[r].again

(* A response carries one Content-Type at most, however many detectors the *)
(* request went through and whatever its handler sets.                     *)
OneContentType == \A r \in Request : req[r].types <= 1

(* With a handler for what is not found and one for errors, every request  *)
(* is answered, except one for which these handlers themselves throw.      *)
EveryRequestAnswered ==
    \A r \in Request : req[r].pc = "global" ~> req[r].ends > 0 \/ req[r].pc = "lost"

(* test/RouterTest.cpp expects status 404 for a request without a route:   *)
(* the client gets it.                                                     *)
NotFoundAnswered ==
    \A r \in Request :
        req[r].pc = "over" /\ req[r].status = 404 => req[r].ends > 0

(* http/router.h says mime_detector adds a content-type header based on    *)
(* the extension of the uri.                                               *)
DetectedTypeSent ==
    \A r \in Request :
        req[r].ends > 0 /\ req[r].status = 200 /\ req[r].asked \in Typed
        /\ (\E i \in 1 .. Len(req[r].ran) : req[r].ran[i] = "mime")
            => req[r].types > 0

=============================================================================
