---------------------------- MODULE StaticFiles ----------------------------
(***************************************************************************)
(* A GET request for a directory served by serve_dir, from the parsing of  *)
(* its resource to the answer (http/router.cpp, filesystem_route_handler.  *)
(* cpp, filesystem.cpp, uri.cpp), while others write to the directory.     *)
(*                                                                         *)
(* The handler looks at the file system again and again: does the path     *)
(* exist, what is its name, its type, its time and its size, and then the  *)
(* file is opened and read, chunk by chunk, or the directory listed.  The  *)
(* files of the operating system may change between any two looks, those   *)
(* of an archive never do.  A status of 404 stands for what the router's   *)
(* notfound handler answers.                                               *)
(***************************************************************************)
EXTENDS FileSystems, Routes

CONSTANTS
    Sites,      \* the file systems considered
    Requests,   \* the requests considered: resource, If-Modified-Since, form
    Literals,   \* the routes without parameters, added before the directory
    Prefix,     \* the uri given to serve_dir ...
    Dir,        \* ... and the path of the directory
    MaxChanges, \* bound: changes to the files while a request is answered
    MaxChunks   \* bound: chunks of a body

VARIABLES
    site,           \* the file system
    allow_listing,  \* how the directory is served
    request,        \* the request
    pc,             \* how far the handler is
    entry,          \* the fs_entry it holds, p in the code
    stream,         \* the opened file
    answer,         \* what the client is given
    history,        \* the contents of the file system during the request
    followed        \* the link the client took the request from, if any

vars == <<site, allow_listing, request, pc, entry, stream, answer, history, followed>>

Version == {"v1", "v2"}

(* An archive has nothing but files and directories.  Nothing is a file    *)
(* and a directory to the operating system.                                *)
ASSUME SitesHoldFiles ==
    \A f \in Sites :
        /\ f.kind \in {"os", "zip"}
        /\ \A name \in DOMAIN f.contents :
              /\ ProperName(name)
              /\ f.contents[name] \in Version \cup {"dir", "special"}
              /\ f.contents[name] = "dir" <=> DirName(name)
              /\ f.kind = "zip" => f.contents[name] # "special"
              /\ f.kind = "os" => Append(name, Slash) \notin DOMAIN f.contents

(* Nobody asks for the directory above.                                    *)
ASSUME PathsGoDown ==
    /\ ~GoesUp(Dir)
    /\ \A r \in Requests : ~GoesUp(Path(r.resource))
    /\ \A f \in Sites : \A name \in DOMAIN f.contents : ~GoesUp(name)

NoEntry == [name |-> Nothing, is |-> "none", lmodified |-> "none", size |-> "none"]
NoStream == [reads |-> "none", linked |-> FALSE]
NoAnswer == [status |-> 0]
Failed(status) == [status |-> status]
NoLink == [from |-> <<>>, link |-> <<>>]
Hash == 35
FsPath == <<102, 115>>     \* stands for "fs_path"

Init ==
    /\ site \in Sites
    /\ allow_listing \in BOOLEAN
    /\ request \in Requests
    /\ pc = "start"
    /\ entry = NoEntry
    /\ stream = NoStream
    /\ answer = NoAnswer
    /\ history = <<site.contents>>
    /\ followed = NoLink

-----------------------------------------------------------------------------
(* Mistaken forms of the definitions below.                                *)

BugNotModified(e) == request.since # "none"
BugLink(name) == <<Slash>> \o name

-----------------------------------------------------------------------------
(* The route of serve_dir, and the path on the file system.                *)

DirRoute == parse_route(Prefix \o <<OpenBrace>> \o FsPath \o <<Colon, 46, 42, CloseBrace>>)

Routed(uri) == Matches(parse_route(uri), Path(request.resource))

FilePath == Dir \o get_param(DirRoute, Path(request.resource), FsPath)

Ends(a) ==
    /\ pc' = "done" /\ answer' = a
    /\ UNCHANGED <<site, allow_listing, request, stream, history, followed>>

Goes(to) ==
    /\ pc' = to
    /\ UNCHANGED <<site, allow_listing, request, stream, answer, history, followed>>

(* get_parsed_uri throws; handle_exception answers. *)
InvalidUri ==
    /\ pc = "start" /\ ~IsUri(request.resource)
    /\ Ends(Failed(500)) /\ UNCHANGED entry

RouteLiteral ==
    /\ pc = "start" /\ IsUri(request.resource)
    /\ \E uri \in Literals :
          Routed(uri) /\ Ends([status |-> 200, by |-> uri]) /\ UNCHANGED entry

NoRoute ==
    /\ pc = "start" /\ IsUri(request.resource)
    /\ ~\E uri \in Literals : Routed(uri)
    /\ ~Matches(DirRoute, Path(request.resource))
    /\ Ends(Failed(404)) /\ UNCHANGED entry

(* on_request of the handler, once the body is skipped. *)
CheckExists ==
    /\ pc = "start" /\ IsUri(request.resource)
    /\ ~\E uri \in Literals : Routed(uri)
    /\ Matches(DirRoute, Path(request.resource))
    /\ UNCHANGED entry
    /\ CASE ~has_param(DirRoute, FsPath) -> Ends(Failed(500))
         [] has_param(DirRoute, FsPath) /\ Exists(site, FilePath) -> Goes("get_file")
         [] OTHER -> Ends(Failed(404))

(* get_file: the path is looked up; it throws if nothing is there.  (That  *)
(* it is there was asked just before, as in CheckExists.)                  *)
Canonical ==
    /\ pc = "get_file"
    /\ \/ ~Exists(site, FilePath) /\ Ends(Failed(500)) /\ UNCHANGED entry
       \/ /\ Exists(site, FilePath)
          /\ entry' = [entry EXCEPT !.name = NameOf(site, FilePath)]
          /\ Goes("status")

Status ==
    /\ pc = "status"
    /\ entry' = [entry EXCEPT !.is = TypeOf(site, FilePath)]
    /\ Goes("last_write_time")

(* What is gone has no time, no size and no stream. *)
Gone == entry.name \notin DOMAIN site.contents

LastWriteTime ==
    /\ pc = "last_write_time"
    /\ \/ Gone /\ Ends(Failed(500)) /\ UNCHANGED entry
       \/ /\ ~Gone
          /\ entry' = [entry EXCEPT !.lmodified = site.contents[entry.name]]
          /\ Goes(IF entry.is = "file" THEN "file_size" ELSE "is_file")

FileSize ==
    /\ pc = "file_size"
    /\ \/ Gone /\ Ends(Failed(500)) /\ UNCHANGED entry
       \/ /\ ~Gone
          /\ entry' = [entry EXCEPT !.size = site.contents[entry.name]]
          /\ Goes("is_file")

(* The handler has its entry. *)
NotModified(e) == e.lmodified = request.since

Decide ==
    /\ pc = "is_file" /\ UNCHANGED entry
    /\ CASE entry.is = "file" /\ NotModified(entry) ->
               Ends([status |-> 304, lmodified |-> entry.lmodified])
         [] entry.is = "file" /\ ~NotModified(entry) -> Goes("open_file")
         [] entry.is = "dir" /\ allow_listing -> Goes("get_files")
         [] OTHER -> Ends(Failed(404))

(* Content-Length and Last-Modified are those of the entry. *)
Open ==
    /\ pc = "open_file"
    /\ \/ Gone /\ Ends(Failed(404))
       \/ /\ ~Gone
          /\ stream' = [reads |-> site.contents[entry.name], linked |-> TRUE]
          /\ answer' = [status |-> 200, lmodified |-> entry.lmodified, size |-> entry.size,
                         body |-> <<>>]
          /\ pc' = "send_body"
          /\ UNCHANGED <<site, allow_listing, request, history, followed>>
    /\ UNCHANGED entry

(* A chunk is read from the stream, the first at once, and each other when *)
(* the one before has been written.  The file may be at its end behind any *)
(* chunk, or the client gone.                                              *)
Send ==
    /\ pc = "send_body"
    /\ answer' = [answer EXCEPT !.body = Append(@, stream.reads)]
    /\ pc' \in {"send_body", "done"}
    /\ pc' = "send_body" => Len(answer'.body) < MaxChunks
    /\ UNCHANGED <<site, allow_listing, request, entry, stream, history, followed>>

Link(name) == <<Dot, Slash>> \o name

List ==
    /\ pc = "get_files"
    /\ UNCHANGED entry
    /\ Ends(IF Listable(site, entry.name)
            THEN [status |-> 200,
                  links |-> {Link(n) : n \in GetFiles(site, entry.name)}]
            ELSE Failed(500))

-----------------------------------------------------------------------------
(* Others, and the client.                                                 *)

(* A file is removed, or written: in place, or by putting another file at  *)
(* its name, and also where it was removed before.  The stream reads the   *)
(* file it was opened on, whatever has become of its name.                 *)
Removed(f) == Restrict(site.contents, DOMAIN site.contents \ {f})
Written(f, v) ==
    [n \in DOMAIN site.contents \cup {f} |-> IF n = f THEN v ELSE site.contents[n]]

Apart(f) == IF f = entry.name THEN [stream EXCEPT !.linked = FALSE] ELSE stream
Rewritten(f, v) == IF f = entry.name /\ stream.linked THEN [stream EXCEPT !.reads = v] ELSE stream

Change ==
    /\ site.kind = "os" /\ pc # "done"
    /\ Len(history) <= MaxChanges
    /\ \E f \in {n \in DOMAIN history[1] : history[1][n] \in Version} :
          \/ site' = [kind |-> "os", contents |-> Removed(f)] /\ stream' = Apart(f)
          \/ \E v \in Version :
                /\ site' = [kind |-> "os", contents |-> Written(f, v)]
                /\ stream' \in {Apart(f), Rewritten(f, v)}
    /\ site' # site
    /\ history' = Append(history, site'.contents)
    /\ UNCHANGED <<allow_listing, request, pc, entry, answer, followed>>

(* A client drops '#' and what follows it, encodes what no resource has    *)
(* and sends the rest of a link as it is.                                  *)
InPath == Unreserved \cup {33, 36, 39, 40, 41, 42, 43, 44, 58, 59, Equal, 64}
AsItIs == InPath \cup {Percent, Amp, Slash, Question}

AsSent(c) == IF c \in AsItIs THEN <<c>> ELSE Code(c)

Sent(link) ==
    LET kept == Before(link, Find(Hash, link, 1))
    IN  FlattenSeq([i \in 1 .. Len(kept) |-> AsSent(kept[i])])

(* The client resolves a link of a listing against the resource. *)
FollowedFrom(resource, link) ==
    IF IsPrefix(<<Slash>>, link) THEN Sent(link)
    ELSE Before(Path(resource), LastOf(Slash, Path(resource)) + 1) \o Sent(After(link, 2))

(* It would also take the dots out of a path, but such a path is not       *)
(* followed.                                                               *)
HasDots(path) == {<<Dot>>, <<Dot, Dot>>} \cap ToSet(Pieces(Slash, path, {})) # {}

Follow ==
    /\ pc = "done" /\ followed = NoLink
    /\ "links" \in DOMAIN answer /\ ~HasDots(Path(request.resource))
    /\ \E l \in answer.links :
          /\ request' = [resource |-> FollowedFrom(request.resource, l), since |-> "none",
                         form |-> <<>>]
          /\ followed' = [from |-> Path(request.resource), link |-> l]
    /\ pc' = "start"
    /\ entry' = NoEntry /\ stream' = NoStream /\ answer' = NoAnswer
    /\ history' = <<site.contents>>
    /\ UNCHANGED <<site, allow_listing>>

Next == InvalidUri \/ RouteLiteral \/ NoRoute \/ CheckExists
        \/ Canonical \/ Status \/ LastWriteTime \/ FileSize \/ Decide
        \/ Open \/ Send \/ List \/ Change \/ Follow

Spec == Init /\ [][Next]_vars

-----------------------------------------------------------------------------
(* What to expect of a request to which nothing happens, said by names.    *)

Wanted == After(Path(request.resource), Len(Prefix))

(* What the request names; a file is not asked for as a directory. *)
Named(contents) ==
    {e \in DOMAIN contents :
        /\ Names(e) = Names(Dir) \o Names(Wanted)
        /\ AsksDirectory(Dir \o Wanted) => contents[e] = "dir"}

Inside(contents, dir) ==
    {e \in DOMAIN contents :
        Names(e) # <<>> /\ Front(Names(e)) = Names(dir)}

IsListed(contents, dir) ==
    /\ answer.status = 200
    /\ {Last(Names(l)) : l \in answer.links} = {Last(Names(e)) : e \in Inside(contents, dir)}

(* All of the version v. *)
IsServed(v) ==
    /\ answer.status = 200 /\ answer.lmodified = v /\ answer.size = v
    /\ ToSet(answer.body) = {v}

IsExpected(contents) ==
    IF ~IsUri(request.resource) THEN answer = Failed(500)
    ELSE IF Path(request.resource) \in Literals
    THEN answer = [status |-> 200, by |-> Path(request.resource)]
    ELSE IF ~IsPrefix(Prefix, Path(request.resource)) \/ ~OneLine(Wanted) \/ Named(contents) = {}
    THEN answer = Failed(404)
    ELSE \E e \in Named(contents) :
            CASE contents[e] = request.since ->
                    answer = [status |-> 304, lmodified |-> request.since]
              [] contents[e] \in Version /\ contents[e] # request.since -> IsServed(contents[e])
              [] contents[e] = "dir" /\ allow_listing ->
                    IF \E o \in Inside(contents, e) : contents[o] = "special"
                    THEN answer = Failed(500) ELSE IsListed(contents, e)
              [] OTHER -> answer = Failed(404)

(* zip_fix_path leaves one slash too many of three, and a dot further on:  *)
(* in an archive nothing is found at such a path.                          *)
LeftByZip ==
    LET path == Path(request.resource)
    IN  \/ \E part \in {<<Slash, Slash, Slash>>, <<Slash, Dot, Slash>>} :
              \E k \in 1 .. Len(path) - 2 : SubSeq(path, k, k + 2) = part
        \/ IsSuffix(<<Slash, Dot>>, path)

-----------------------------------------------------------------------------
(* The properties.                                                         *)

(* Where nothing changes meanwhile, the answer is that of the file or      *)
(* directory with the names in the resource, from either file system; a    *)
(* literal route is chosen by its own path and by no other, although the   *)
(* routes are regular expressions.                                         *)
AnsweredByName ==
    pc = "done" /\ Len(history) = 1 /\ ~(site.kind = "zip" /\ LeftByZip)
    => IsExpected(site.contents)

(* The elements of seen were versions one after the other. *)
InTurn(seen, versions) ==
    \E at \in [DOMAIN seen -> DOMAIN versions] :
        /\ \A i \in DOMAIN seen : versions[at[i]] = seen[i]
        /\ \A i, j \in DOMAIN seen : i <= j => at[i] <= at[j]

There ==
    \A k \in DOMAIN history :
        entry.name \in DOMAIN history[k] /\ history[k][entry.name] \in Version

(* A file that is there throughout the request, in whatever versions, is   *)
(* served: 304 is only said to a client that has a version the file had    *)
(* during the request, and in an answer of 200 the time, the size and each *)
(* chunk of the body are those of the same or of a later version than what *)
(* comes before.  Where the file changes they may well differ.             *)
FilesStayServed ==
    LET versions == [k \in DOMAIN history |-> history[k][entry.name]]
    IN  pc = "done" /\ entry.name # Nothing /\ There =>
            /\ answer.status \in {200, 304}
            /\ answer.status = 304 =>
                  answer.lmodified = request.since /\ request.since \in ToSet(versions)
            /\ answer.status = 200 =>
                  InTurn(<<answer.lmodified, answer.size>> \o answer.body, versions)

(* The links of a listing lead to what they name, as long as that is       *)
(* there; to list it may fail, where something in it is neither a file nor *)
(* a directory.  Links are not encoded and paths not decoded: the link has *)
(* no characters but those a client sends as they are.  And the path of    *)
(* the listing ends in a slash: otherwise its links are resolved against   *)
(* the directory above.                                                    *)
LinksLead ==
    /\ pc = "done" /\ followed.from # <<>> /\ Last(followed.from) = Slash
    /\ ToSet(followed.link) \subseteq InPath \cup {Slash} /\ Len(history) = 1
    => \/ answer.status = 200
       \/ \E e \in Entries(site, entry.name) : site.contents[e] = "special"

(* A form as a client puts it together: keys and values encoded, joined by *)
(* '=' and '&'.                                                            *)
Pair(param) == Encoded(param[1]) \o <<Equal>> \o Encoded(param[2])

FormText(form) ==
    LET text[i \in 0 .. Len(form)] ==
            IF i = 0 THEN <<>>
            ELSE IF i = 1 THEN Pair(form[1])
            ELSE text[i - 1] \o <<Amp>> \o Pair(form[i])
    IN  text[Len(form)]

(* parse_formdata gives back the keys and values of a form that was put    *)
(* together with url_encode, whatever characters they have; as the query   *)
(* of a resource the form is taken apart at the same places, and its keys  *)
(* and values are left encoded.                                            *)
FormSurvives ==
    LET form == request.form
        encoded == [i \in DOMAIN form |-> <<Encoded(form[i][1]), Encoded(form[i][2])>>]
    IN  form # <<>> =>
            /\ FormData(FormText(form)) = form
            /\ Query(request.resource \o <<Question>> \o FormText(form)) = encoded

=============================================================================
