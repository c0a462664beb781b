------------------------- MODULE StaticFilesProofs -------------------------
(***************************************************************************)
(* Theorems about StaticFiles, for any file systems, requests, routes and  *)
(* any number of changes to the files while a request is answered, as long *)
(* as no path leads to the directory above (PathsGoDown).                  *)
(***************************************************************************)
EXTENDS StaticFiles, Induction, SequenceTheorems, TLAPS

(* What a file system makes of a path, before it looks for it.             *)
Said(fs, path) == IF fs.kind = "zip" THEN Fixed(path) ELSE Resolved(path)

(* NameOf looks for what is said.                                          *)
LEMMA NameSaid ==
    ASSUME NEW fs, NEW path
    PROVE  NameOf(fs, path) = AsName(fs, Said(fs, path))
BY DEF NameOf, ZipName, OsName, Said

-----------------------------------------------------------------------------
(* What is seen of a file in turn.                                         *)

(* Nothing is.                                                             *)
LEMMA TurnNone == ASSUME NEW versions PROVE InTurn(<<>>, versions)
<1>1. PICK at : at = [i \in {} |-> 0]
  OBVIOUS
<1>2. DOMAIN <<>> = {} /\ at \in [{} -> DOMAIN versions]
  BY <1>1
<1> QED BY <1>2 DEF InTurn

(* The version there is now comes last.                                    *)
LEMMA TurnNow ==
    ASSUME NEW T, NEW seen \in Seq(T), NEW v \in T, NEW n \in Nat \ {0}, NEW versions,
           DOMAIN versions = 1 .. n, versions[n] = v, InTurn(seen, versions)
    PROVE  InTurn(Append(seen, v), versions)
<1>1. PICK m \in Nat : m = Len(seen) /\ DOMAIN seen = 1 .. m
  OBVIOUS
<1>2. PICK s : s = Append(seen, v)
  OBVIOUS
<1>3. DOMAIN s = 1 .. m + 1 /\ s[m + 1] = v /\ \A i \in 1 .. m : s[i] = seen[i]
  BY <1>1, <1>2
<1>4. PICK at \in [1 .. m -> 1 .. n] :
         /\ \A i \in 1 .. m : versions[at[i]] = seen[i]
         /\ \A i, j \in 1 .. m : i <= j => at[i] <= at[j]
  BY <1>1 DEF InTurn
<1>5. PICK more : more = [i \in 1 .. m + 1 |-> IF i <= m THEN at[i] ELSE n]
  OBVIOUS
<1>6. more \in [1 .. m + 1 -> 1 .. n] /\ more[m + 1] = n /\ \A i \in 1 .. m : more[i] = at[i]
  BY <1>4, <1>5
<1>7. ASSUME NEW i \in 1 .. m + 1 PROVE versions[more[i]] = s[i]
  <2>1. i = m + 1 \/ i \in 1 .. m
    BY <1>1
  <2> QED BY <1>3, <1>4, <1>6, <2>1
<1>8. ASSUME NEW i \in 1 .. m + 1, NEW j \in 1 .. m + 1, i <= j PROVE more[i] <= more[j]
  <2>1. j = m + 1 \/ (i \in 1 .. m /\ j \in 1 .. m)
    BY <1>8
  <2> QED BY <1>4, <1>6, <1>8, <2>1
<1>9. InTurn(s, versions)
  BY <1>3, <1>6, <1>7, <1>8 DEF InTurn
<1> QED BY <1>2, <1>9

(* The last may be left out ...                                            *)
LEMMA TurnFewer ==
    ASSUME NEW T, NEW seen \in Seq(T), NEW v \in T, NEW versions,
           InTurn(Append(seen, v), versions)
    PROVE  InTurn(seen, versions)
<1>1. PICK m \in Nat : m = Len(seen) /\ DOMAIN seen = 1 .. m
  OBVIOUS
<1>2. PICK s : s = Append(seen, v)
  OBVIOUS
<1>3. DOMAIN s = 1 .. m + 1 /\ \A i \in 1 .. m : s[i] = seen[i]
  BY <1>1, <1>2
<1>4. PICK at \in [1 .. m + 1 -> DOMAIN versions] :
         /\ \A i \in 1 .. m + 1 : versions[at[i]] = s[i]
         /\ \A i, j \in 1 .. m + 1 : i <= j => at[i] <= at[j]
  BY <1>2, <1>3 DEF InTurn
<1>5. PICK less : less = [i \in 1 .. m |-> at[i]]
  OBVIOUS
<1>6. less \in [1 .. m -> DOMAIN versions] /\ \A i \in 1 .. m : less[i] = at[i] /\ i \in 1 .. m + 1
  BY <1>4, <1>5
<1>7. /\ \A i \in 1 .. m : versions[less[i]] = seen[i]
      /\ \A i, j \in 1 .. m : i <= j => less[i] <= less[j]
  BY <1>3, <1>4, <1>6
<1> QED BY <1>1, <1>6, <1>7 DEF InTurn

(* ... or repeated.                                                        *)
LEMMA TurnAgain ==
    ASSUME NEW T, NEW seen \in Seq(T), NEW v \in T, NEW n \in Nat, NEW versions,
           DOMAIN versions = 1 .. n, InTurn(Append(seen, v), versions)
    PROVE  InTurn(Append(Append(seen, v), v), versions)
<1>1. PICK m \in Nat : m = Len(seen) /\ DOMAIN seen = 1 .. m
  OBVIOUS
<1>2. PICK s : s = Append(seen, v)
  OBVIOUS
<1>3. s \in Seq(T) /\ Len(s) = m + 1 /\ DOMAIN s = 1 .. m + 1 /\ s[m + 1] = v
  BY <1>1, <1>2
<1>4. PICK w : w = Append(s, v)
  OBVIOUS
<1>5. DOMAIN w = 1 .. m + 2 /\ w[m + 2] = v /\ \A i \in 1 .. m + 1 : w[i] = s[i]
  BY <1>2, <1>3, <1>4
<1>6. PICK at \in [1 .. m + 1 -> 1 .. n] :
         /\ \A i \in 1 .. m + 1 : versions[at[i]] = s[i]
         /\ \A i, j \in 1 .. m + 1 : i <= j => at[i] <= at[j]
  BY <1>2, <1>3 DEF InTurn
<1>7. PICK more : more = [i \in 1 .. m + 2 |-> IF i <= m + 1 THEN at[i] ELSE at[m + 1]]
  OBVIOUS
<1>8. m + 1 \in 1 .. m + 1
  OBVIOUS
<1>9. /\ more \in [1 .. m + 2 -> 1 .. n] /\ more[m + 2] = at[m + 1]
      /\ \A i \in 1 .. m + 1 : more[i] = at[i]
  BY <1>6, <1>7, <1>8
<1>10. ASSUME NEW i \in 1 .. m + 2 PROVE versions[more[i]] = w[i]
  <2>1. i = m + 2 \/ i \in 1 .. m + 1
    BY <1>1
  <2> QED BY <1>3, <1>5, <1>6, <1>8, <1>9, <2>1
<1>11. ASSUME NEW i \in 1 .. m + 2, NEW j \in 1 .. m + 2, i <= j PROVE more[i] <= more[j]
  <2>1. \/ i \in 1 .. m + 1 /\ j \in 1 .. m + 1
        \/ i \in 1 .. m + 1 /\ j = m + 2 /\ i <= m + 1
        \/ i = m + 2 /\ j = m + 2
    BY <1>11
  <2> QED BY <1>6, <1>8, <1>9, <1>11, <2>1
<1>12. InTurn(w, versions)
  <2>1. more \in [DOMAIN w -> DOMAIN versions]
    BY <1>5, <1>9
  <2>2. \A i \in DOMAIN w : versions[more[i]] = w[i]
    BY <1>5, <1>10
  <2>3. \A i, j \in DOMAIN w : i <= j => more[i] <= more[j]
    BY <1>5, <1>11
  <2> QED BY <2>1, <2>2, <2>3 DEF InTurn
<1> QED BY <1>2, <1>4, <1>12

(* It stays in turn when there are more versions.                          *)
LEMMA TurnLater ==
    ASSUME NEW seen, NEW versions, NEW more, DOMAIN versions \subseteq DOMAIN more,
           \A k \in DOMAIN versions : more[k] = versions[k], InTurn(seen, versions)
    PROVE  InTurn(seen, more)
<1>1. PICK at \in [DOMAIN seen -> DOMAIN versions] :
         /\ \A i \in DOMAIN seen : versions[at[i]] = seen[i]
         /\ \A i, j \in DOMAIN seen : i <= j => at[i] <= at[j]
  BY DEF InTurn
<1>2. at \in [DOMAIN seen -> DOMAIN more] /\ \A i \in DOMAIN seen : more[at[i]] = seen[i]
  BY <1>1
<1> QED BY <1>1, <1>2 DEF InTurn

(* A look and the next. *)
LEMMA Both == ASSUME NEW v, NEW w PROVE Append(<<v>>, w) = <<v, w>>
<1>1. PICK T : T = {v, w}
  OBVIOUS
<1>2. PICK s, t : s = Append(<<v>>, w) /\ t = <<v, w>>
  OBVIOUS
<1>3. s \in Seq(T) /\ Len(s) = 2 /\ s[1] = v /\ s[2] = w
  BY <1>1, <1>2
<1>4. t \in Seq(T) /\ Len(t) = 2 /\ t[1] = v /\ t[2] = w
  BY <1>1, <1>2
<1>5. \A i \in 1 .. 2 : s[i] = t[i]
  <2>1. \A i \in 1 .. 2 : i = 1 \/ i = 2
    OBVIOUS
  <2> QED BY <1>3, <1>4, <2>1
<1>6. s = t
  BY <1>3, <1>4, <1>5, SeqEqual
<1> QED BY <1>2, <1>6

-----------------------------------------------------------------------------
(* The file that is served.                                                *)

Content == Version \cup {"dir", "special"}

(* The files are what they were last changed to.                           *)
Past ==
    /\ \E T : history \in Seq(T)
    /\ history # <<>> /\ history[Len(history)] = site.contents
    /\ \A name \in DOMAIN site.contents : site.contents[name] \in Content
    /\ Nothing \notin DOMAIN site.contents \cup DOMAIN history[1]

Versions(name, h) == [k \in DOMAIN h |-> h[k][name]]

(* What the handler knows, by how far it is.                               *)
Looking ==
    {"status", "last_write_time", "file_size", "is_file", "open_file", "send_body", "get_files"}

Held ==
    /\ entry = [name |-> entry.name, is |-> entry.is, lmodified |-> entry.lmodified,
                size |-> entry.size]
    /\ stream = [reads |-> stream.reads, linked |-> stream.linked]
    /\ pc \in {"start", "get_file"} => entry = NoEntry
    /\ pc = "status" =>
          entry.name \in {Said(site, FilePath), Append(Said(site, FilePath), Slash)}
    /\ pc \in {"file_size", "open_file", "send_body"} => entry.is = "file"
    /\ pc = "get_files" => entry.is = "dir"
    /\ pc \in {"file_size", "is_file", "open_file", "send_body"} => entry.lmodified \in Content
    /\ pc \in {"is_file", "open_file", "send_body"} /\ entry.is = "file" => entry.size \in Content
    /\ pc \in {"open_file", "send_body"} => ~NotModified(entry)
    /\ pc = "send_body" =>
          /\ stream.reads \in Content /\ answer.body \in Seq(Content)
          /\ answer = [status |-> 200, lmodified |-> entry.lmodified, size |-> entry.size,
                       body |-> answer.body]

(* A file that stays there is taken for one.                               *)
Stays ==
    There =>
        /\ pc = "status" => TypeOf(site, FilePath) = "file"
        /\ pc \in Looking \ {"status"} => entry.is = "file"

(* What was looked at, one look after the other.                           *)
InOrder ==
    LET versions == Versions(entry.name, history)
    IN  /\ pc = "file_size" => InTurn(<<entry.lmodified>>, versions)
        /\ pc \in {"is_file", "open_file"} /\ entry.is = "file" =>
              InTurn(<<entry.lmodified, entry.size>>, versions)
        /\ pc = "send_body" =>
              InTurn(Append(<<entry.lmodified, entry.size>> \o answer.body, stream.reads), versions)

(* Where nothing has changed since the request, what was seen is still so. *)
Quiet ==
    Len(history) = 1 =>
        /\ pc \in {"get_file"} \cup Looking => Exists(site, FilePath)
        /\ pc \in Looking => entry.name = NameOf(site, FilePath)
        /\ pc \in Looking \ {"status"} => entry.is = Type(site.contents[entry.name])
        /\ pc \in {"file_size", "is_file", "open_file", "send_body"} =>
              entry.lmodified = site.contents[entry.name]
        /\ pc \in {"is_file", "open_file", "send_body"} /\ entry.is = "file" =>
              entry.size = site.contents[entry.name]
        /\ pc = "send_body" =>
              /\ stream.reads = site.contents[entry.name]
              /\ answer.body \in Seq({site.contents[entry.name]})

Inv == Past /\ Held /\ Stays /\ InOrder /\ Quiet /\ FilesStayServed

(* Nothing is no text.                                                     *)
LEMMA NotText == Nothing \notin Text
<1>1. Len(Nothing) = 1 /\ Nothing[1] \notin Byte
  BY DEF Nothing, Wrong, Byte
<1>2. Nothing \in Text => Nothing[1] \in Byte
  BY <1>1 DEF Text
<1> QED BY <1>1, <1>2

(* Nothing is held at first.                                               *)
LEMMA InitInv == Init => Inv
<1> SUFFICES ASSUME Init PROVE Inv
    OBVIOUS
<1>1. history = <<site.contents>> /\ entry = NoEntry /\ pc = "start" /\ site \in Sites
      /\ stream = NoStream
  BY DEF Init
<1>2. Past
  <2>1. PICK c : c = site.contents
    OBVIOUS
  <2>2. <<c>> \in Seq({c}) /\ <<c>> # <<>> /\ Len(<<c>>) = 1 /\ <<c>>[1] = c
    OBVIOUS
  <2>3. \A name \in DOMAIN c : c[name] \in Content
    BY <1>1, <2>1, SitesHoldFiles DEF Content
  <2>4. Nothing \notin DOMAIN c
    BY <1>1, <2>1, NotText, SitesHoldFiles DEF ProperName
  <2> QED BY <1>1, <2>1, <2>2, <2>3, <2>4 DEF Past
<1>3. Held /\ Stays /\ InOrder /\ Quiet
  BY <1>1 DEF Held, Stays, InOrder, Quiet, Looking, NoEntry, NoStream
<1>4. FilesStayServed
  BY <1>1 DEF FilesStayServed
<1> QED BY <1>2, <1>3, <1>4 DEF Inv

(* A change is one more entry of the history.                              *)
LEMMA Appended ==
    ASSUME Past, NEW c, NEW h, h = Append(history, c)
    PROVE  /\ \E T : h \in Seq(T)
           /\ Len(history) \in Nat \ {0} /\ Len(h) = Len(history) + 1
           /\ h # <<>> /\ h[Len(h)] = c
           /\ \A i \in 1 .. Len(history) : h[i] = history[i]
           /\ DOMAIN history = 1 .. Len(history) /\ DOMAIN h = 1 .. Len(h)
<1>1. PICK T : history \in Seq(T)
  BY DEF Past
<1>2. PICK U : U = T \cup {c}
  OBVIOUS
<1>3. history \in Seq(U) /\ c \in U
  BY <1>1, <1>2
<1>4. h \in Seq(U) /\ Len(h) = Len(history) + 1 /\ h[Len(history) + 1] = c
      /\ \A i \in 1 .. Len(history) : h[i] = history[i]
  BY <1>3
<1>5. Len(history) \in Nat \ {0}
  BY <1>3 DEF Past
<1>6. DOMAIN history = 1 .. Len(history) /\ DOMAIN h = 1 .. Len(h)
  BY <1>3, <1>4
<1> QED BY <1>4, <1>5, <1>6

(* The last version is the one that is there now.                          *)
LEMMA NowIs ==
    ASSUME Past, NEW name
    PROVE  /\ Len(history) \in Nat \ {0} /\ DOMAIN history = 1 .. Len(history)
           /\ DOMAIN Versions(name, history) = 1 .. Len(history)
           /\ Versions(name, history)[Len(history)] = site.contents[name]
           /\ name \in DOMAIN site.contents => site.contents[name] \in Content
<1>1. PICK T : history \in Seq(T)
  BY DEF Past
<1>2. PICK n : n = Len(history) /\ n \in Nat \ {0} /\ DOMAIN history = 1 .. n
  BY <1>1 DEF Past
<1>3. n \in 1 .. n
  BY <1>2
<1> QED BY <1>2, <1>3 DEF Past, Versions

(* What is there throughout is there now.                                  *)
LEMMA ThereNow ==
    ASSUME Past, There
    PROVE  ~Gone /\ site.contents[entry.name] \in Version
<1>1. Len(history) \in DOMAIN history
  BY NowIs
<1> QED BY <1>1 DEF There, Gone, Past

(* Steps up to the one that finds the path, and the listing.               *)
LEMMA NoFileInv ==
    ASSUME Inv, InvalidUri \/ RouteLiteral \/ NoRoute \/ CheckExists \/ List
    PROVE  Inv'
<1>1. /\ entry' = entry /\ UNCHANGED <<site, request, stream, history>>
      /\ \/ pc' = "done" /\ pc \in {"start", "get_files"}
         \/ pc' = "get_file" /\ pc = "start" /\ Exists(site, FilePath)
  <2>1. InvalidUri \/ RouteLiteral \/ NoRoute \/ List =>
           /\ entry' = entry /\ UNCHANGED <<site, request, stream, history>>
           /\ pc' = "done" /\ pc \in {"start", "get_files"}
    BY DEF InvalidUri, RouteLiteral, NoRoute, List, Ends
  <2>2. CheckExists =>
           /\ entry' = entry /\ UNCHANGED <<site, request, stream, history>> /\ pc = "start"
           /\ pc' = "done" \/ (pc' = "get_file" /\ Exists(site, FilePath))
    <3> SUFFICES ASSUME CheckExists
                 PROVE  /\ entry' = entry /\ UNCHANGED <<site, request, stream, history>> /\ pc = "start"
                        /\ pc' = "done" \/ (pc' = "get_file" /\ Exists(site, FilePath))
        OBVIOUS
    <3>1. \/ Exists(site, FilePath) /\ Goes("get_file")
          \/ Ends(Failed(404)) \/ Ends(Failed(500))
      BY Zenon DEF CheckExists
    <3> QED BY <3>1 DEF CheckExists, Goes, Ends
  <2> QED BY <2>1, <2>2
<1>2. Past'
  BY <1>1 DEF Inv, Past
<1>3. Held' /\ InOrder' /\ Stays'
  BY <1>1 DEF Inv, Held, InOrder, Stays, Looking
<1>4. Quiet'
  <2>1. FilePath' = FilePath
    BY <1>1 DEF FilePath
  <2> QED BY <1>1, <2>1 DEF Quiet, Looking
<1>5. FilesStayServed'
  <2>1. pc = "start" => entry.name = Nothing
    BY DEF Inv, Held, NoEntry
  <2>2. pc = "get_files" => ~There
    BY DEF Inv, Held, Stays, Looking
  <2>3. There' <=> There
    BY <1>1 DEF There
  <2> QED BY <1>1, <2>1, <2>2, <2>3 DEF FilesStayServed
<1> QED BY <1>2, <1>3, <1>4, <1>5 DEF Inv

(* What the name of a path stands for.                                     *)
LEMMA NameIn ==
    ASSUME NEW fs, NEW path, Exists(fs, path)
    PROVE  /\ NameOf(fs, path) \in DOMAIN fs.contents
           /\ NameOf(fs, path) \in {Said(fs, path), Append(Said(fs, path), Slash)}
           /\ TypeOf(fs, path) = Type(fs.contents[NameOf(fs, path)])
<1>1. NameOf(fs, path) = AsName(fs, Said(fs, path))
  BY NameSaid
<1> QED BY <1>1 DEF Exists, AsName, TypeOf

(* A step of the handler that changes nothing of the files.                *)
LEMMA Unchanged ==
    ASSUME Inv, site' = site, request' = request, history' = history
    PROVE  /\ Past'
           /\ FilePath' = FilePath /\ NameOf(site, FilePath)' = NameOf(site, FilePath)
           /\ (Exists(site, FilePath)' <=> Exists(site, FilePath))
           /\ TypeOf(site, FilePath)' = TypeOf(site, FilePath)
           /\ Said(site, FilePath)' = Said(site, FilePath)
           /\ entry'.name = entry.name =>
                 /\ There' <=> There
                 /\ Versions(entry.name, history)' = Versions(entry.name, history)
<1>1. FilePath' = FilePath
  BY DEF FilePath
<1> QED BY <1>1 DEF Inv, Past, There

(* An exception ends the request where nothing was found.                  *)
LEMMA EndInv ==
    ASSUME Inv, entry' = entry, NEW a, Ends(a),
           entry.name # Nothing => ~There
    PROVE  Inv'
<1>1. pc' = "done" /\ UNCHANGED <<site, request, stream, history>>
  BY DEF Ends
<1>2. Past' /\ (There' <=> There)
  BY <1>1, Unchanged
<1>3. Held' /\ Stays' /\ InOrder' /\ Quiet'
  BY <1>1 DEF Inv, Held, Stays, InOrder, Quiet, Looking
<1>4. FilesStayServed'
  BY <1>1, <1>2 DEF FilesStayServed
<1> QED BY <1>2, <1>3, <1>4 DEF Inv

(* get_file has a name.                                                    *)
LEMMA CanonicalInv ==
    ASSUME Inv, Canonical
    PROVE  Inv'
<1>1. pc = "get_file" /\ entry = NoEntry
  BY DEF Canonical, Inv, Held
<1>2. CASE ~Exists(site, FilePath)
  BY <1>1, <1>2, EndInv DEF Canonical, NoEntry
<1>3. CASE Exists(site, FilePath)
  <2>1. /\ pc' = "status" /\ entry'.name = NameOf(site, FilePath)
        /\ entry' = [name |-> entry'.name, is |-> entry'.is, lmodified |-> entry'.lmodified,
                     size |-> entry'.size]
        /\ UNCHANGED <<site, request, stream, answer, history>>
    BY <1>1, <1>3 DEF Canonical, Goes, NoEntry
  <2>2. Past'
    BY <2>1, Unchanged
  <2>3. Held'
    BY <1>3, <2>1, NameIn, Unchanged DEF Inv, Held
  <2>4. Stays'
    <3> SUFFICES ASSUME There' PROVE TypeOf(site, FilePath) = "file"
        BY <2>1, Unchanged DEF Stays, Looking
    <3>1. Len(history) \in DOMAIN history
      BY NowIs DEF Inv
    <3>2. history[Len(history)][entry'.name] \in Version
      BY <2>1, <3>1 DEF There
    <3>3. site.contents[NameOf(site, FilePath)] \in Version
      BY <2>1, <3>2 DEF Inv, Past
    <3> QED BY <1>3, <3>3, NameIn DEF Type, Version
  <2>5. InOrder'
    BY <2>1 DEF InOrder
  <2>6. Quiet'
    BY <1>3, <2>1, Unchanged DEF Quiet, Looking
  <2>7. FilesStayServed'
    BY <2>1 DEF FilesStayServed
  <2> QED BY <2>2, <2>3, <2>4, <2>5, <2>6, <2>7 DEF Inv
<1> QED BY <1>2, <1>3

(* ... a type ...                                                          *)
LEMMA StatusInv ==
    ASSUME Inv, Status
    PROVE  Inv'
<1>1. /\ pc = "status" /\ pc' = "last_write_time"
      /\ UNCHANGED <<site, request, stream, answer, history>>
      /\ entry' = [entry EXCEPT !.is = TypeOf(site, FilePath)]
  BY DEF Status, Goes
<1>2. /\ entry'.name = entry.name /\ entry'.is = TypeOf(site, FilePath)
      /\ entry' = [name |-> entry'.name, is |-> entry'.is, lmodified |-> entry'.lmodified,
                   size |-> entry'.size]
  BY <1>1 DEF Inv, Held
<1>3. Past'
  BY <1>1, Unchanged
<1>4. Held'
  BY <1>1, <1>2 DEF Inv, Held
<1>5. Stays'
  BY <1>1, <1>2, Unchanged DEF Inv, Stays, Looking
<1>6. InOrder'
  BY <1>1 DEF InOrder
<1>7. Quiet'
  <2> SUFFICES ASSUME Len(history) = 1
               PROVE  /\ Exists(site, FilePath) /\ entry.name = NameOf(site, FilePath)
                      /\ TypeOf(site, FilePath) = Type(site.contents[entry.name])
      BY <1>1, <1>2, Unchanged DEF Quiet, Looking
  <2>1. Exists(site, FilePath) /\ entry.name = NameOf(site, FilePath)
    BY <1>1 DEF Inv, Quiet, Looking
  <2> QED BY <2>1, NameIn
<1>8. FilesStayServed'
  BY <1>1 DEF FilesStayServed
<1> QED BY <1>3, <1>4, <1>5, <1>6, <1>7, <1>8 DEF Inv

(* ... a time ...                                                          *)
LEMMA LastWriteTimeInv ==
    ASSUME Inv, LastWriteTime
    PROVE  Inv'
<1>1. pc = "last_write_time"
  BY DEF LastWriteTime
<1>2. CASE Gone
  <2>1. ~There
    BY <1>2, ThereNow DEF Inv
  <2> QED BY <1>2, <2>1, EndInv DEF LastWriteTime
<1>3. CASE ~Gone
  <2>1. PICK v : v = site.contents[entry.name]
    OBVIOUS
  <2>2. /\ UNCHANGED <<site, request, stream, answer, history>>
        /\ entry' = [entry EXCEPT !.lmodified = v]
        /\ \/ pc' = "file_size" /\ entry.is = "file"
           \/ pc' = "is_file" /\ entry.is # "file"
    BY <1>3, <2>1 DEF LastWriteTime, Goes
  <2>3. /\ entry'.name = entry.name /\ entry'.is = entry.is /\ entry'.lmodified = v
        /\ entry' = [name |-> entry'.name, is |-> entry'.is, lmodified |-> entry'.lmodified,
                     size |-> entry'.size]
    BY <2>2 DEF Inv, Held
  <2>4. v \in Content
    BY <1>3, <2>1 DEF Gone, Inv, Past
  <2>5. Past'
    BY <2>2, Unchanged
  <2>6. Held'
    BY <2>2, <2>3, <2>4 DEF Inv, Held
  <2>7. Stays'
    BY <1>1, <2>2, <2>3, Unchanged DEF Inv, Stays, Looking
  <2>8. InOrder'
    <3>1. PICK versions, n : versions = Versions(entry.name, history) /\ n = Len(history)
      OBVIOUS
    <3>2. n \in Nat \ {0} /\ DOMAIN versions = 1 .. n /\ versions[n] = v
      BY <2>1, <3>1, NowIs DEF Inv
    <3>3. <<>> \in Seq(Content) /\ InTurn(<<>>, versions)
      BY TurnNone
    <3>4. InTurn(Append(<<>>, v), versions)
      BY <2>4, <3>2, <3>3, TurnNow
    <3>5. Append(<<>>, v) = <<v>>
      OBVIOUS
    <3>6. InTurn(<<v>>, versions)
      BY <3>4, <3>5
    <3> QED BY <2>2, <2>3, <3>1, <3>6 DEF InOrder, Versions
  <2>9. Quiet'
    BY <1>1, <2>1, <2>2, <2>3, Unchanged DEF Inv, Quiet, Looking
  <2>10. FilesStayServed'
    BY <2>2 DEF FilesStayServed
  <2> QED BY <2>5, <2>6, <2>7, <2>8, <2>9, <2>10 DEF Inv
<1> QED BY <1>2, <1>3

(* ... and a size.                                                         *)
LEMMA FileSizeInv ==
    ASSUME Inv, FileSize
    PROVE  Inv'
<1>1. pc = "file_size" /\ entry.is = "file" /\ entry.lmodified \in Content
  BY DEF FileSize, Inv, Held
<1>2. CASE Gone
  <2>1. ~There
    BY <1>2, ThereNow DEF Inv
  <2> QED BY <1>2, <2>1, EndInv DEF FileSize
<1>3. CASE ~Gone
  <2>1. PICK v : v = site.contents[entry.name]
    OBVIOUS
  <2>2. /\ UNCHANGED <<site, request, stream, answer, history>>
        /\ entry' = [entry EXCEPT !.size = v] /\ pc' = "is_file"
    BY <1>3, <2>1 DEF FileSize, Goes
  <2>3. /\ entry'.name = entry.name /\ entry'.is = entry.is /\ entry'.lmodified = entry.lmodified
        /\ entry'.size = v
        /\ entry' = [name |-> entry'.name, is |-> entry'.is, lmodified |-> entry'.lmodified,
                     size |-> entry'.size]
    BY <2>2 DEF Inv, Held
  <2>4. v \in Content
    BY <1>3, <2>1 DEF Gone, Inv, Past
  <2>5. Past'
    BY <2>2, Unchanged
  <2>6. Held'
    BY <1>1, <2>2, <2>3, <2>4 DEF Inv, Held
  <2>7. Stays'
    BY <1>1, <2>2, <2>3 DEF Stays, Looking
  <2>8. InOrder'
    <3>1. PICK versions, n, l : /\ versions = Versions(entry.name, history) /\ n = Len(history)
                                /\ l = entry.lmodified
      OBVIOUS
    <3>2. n \in Nat \ {0} /\ DOMAIN versions = 1 .. n /\ versions[n] = v
      BY <2>1, <3>1, NowIs DEF Inv
    <3>3. l \in Content /\ <<l>> \in Seq(Content) /\ InTurn(<<l>>, versions)
      BY <1>1, <3>1 DEF Inv, InOrder
    <3>4. InTurn(Append(<<l>>, v), versions)
      BY <2>4, <3>2, <3>3, TurnNow
    <3>5. Append(<<l>>, v) = <<l, v>>
      BY Both
    <3>6. InTurn(<<l, v>>, versions)
      BY <3>4, <3>5
    <3> QED BY <2>2, <2>3, <3>1, <3>6 DEF InOrder, Versions
  <2>9. Quiet'
    BY <1>1, <2>1, <2>2, <2>3, Unchanged DEF Inv, Quiet, Looking
  <2>10. FilesStayServed'
    BY <2>2 DEF FilesStayServed
  <2> QED BY <2>5, <2>6, <2>7, <2>8, <2>9, <2>10 DEF Inv
<1> QED BY <1>2, <1>3

(* The handler has an entry.                                               *)
LEMMA DecideInv ==
    ASSUME Inv, Decide
    PROVE  Inv'
<1>1. /\ pc = "is_file" /\ entry' = entry
      /\ \/ entry.is = "file" /\ NotModified(entry)
            /\ Ends([status |-> 304, lmodified |-> entry.lmodified])
         \/ entry.is = "file" /\ ~NotModified(entry) /\ Goes("open_file")
         \/ entry.is = "dir" /\ Goes("get_files")
         \/ entry.is # "file" /\ Ends(Failed(404))
  BY DEF Decide
<1>2. CASE entry.is = "file" /\ NotModified(entry)
           /\ Ends([status |-> 304, lmodified |-> entry.lmodified])
  <2>1. /\ pc' = "done" /\ UNCHANGED <<site, request, stream, history>>
        /\ answer' = [status |-> 304, lmodified |-> entry.lmodified]
    BY <1>2 DEF Ends
  <2>2. Past' /\ (There' <=> There)
    BY <1>1, <2>1, Unchanged
  <2>3. Held' /\ Stays' /\ InOrder' /\ Quiet'
    BY <1>1, <2>1 DEF Inv, Held, Stays, InOrder, Quiet, Looking
  <2>4. FilesStayServed'
    <3>1. PICK versions : versions = Versions(entry.name, history)
      OBVIOUS
    <3>2. InTurn(<<entry.lmodified, entry.size>>, versions)
      BY <1>1, <1>2, <3>1 DEF Inv, InOrder
    <3>3. PICK at \in [1 .. 2 -> DOMAIN versions] :
             \A i \in 1 .. 2 : versions[at[i]] = <<entry.lmodified, entry.size>>[i]
      BY <3>2 DEF InTurn
    <3>4. at[1] \in DOMAIN versions /\ versions[at[1]] = entry.lmodified
      BY <3>3
    <3>5. entry.lmodified \in ToSet(versions)
      BY <3>4 DEF ToSet
    <3>6. entry.lmodified = request.since
      BY <1>2 DEF NotModified
    <3> QED BY <1>1, <2>1, <3>1, <3>5, <3>6 DEF FilesStayServed, Versions
  <2> QED BY <2>2, <2>3, <2>4 DEF Inv
<1>3. CASE entry.is = "file" /\ ~NotModified(entry) /\ Goes("open_file")
  <2>1. pc' = "open_file" /\ UNCHANGED <<site, request, stream, answer, history>>
    BY <1>3 DEF Goes
  <2>2. Past' /\ (There' <=> There)
    BY <1>1, <2>1, Unchanged
  <2>3. Held'
    BY <1>1, <1>3, <2>1 DEF Inv, Held, NotModified
  <2>4. Stays'
    BY <1>1, <1>3, <2>1 DEF Stays, Looking
  <2>5. InOrder'
    BY <1>1, <1>3, <2>1 DEF Inv, InOrder, Versions
  <2>6. Quiet'
    BY <1>1, <1>3, <2>1, Unchanged DEF Inv, Quiet, Looking
  <2> QED BY <2>1, <2>2, <2>3, <2>4, <2>5, <2>6 DEF Inv, FilesStayServed
<1>4. CASE entry.is = "dir" /\ Goes("get_files")
  <2>1. pc' = "get_files" /\ UNCHANGED <<site, request, stream, answer, history>>
    BY <1>4 DEF Goes
  <2>2. Past' /\ (There' <=> There)
    BY <1>1, <2>1, Unchanged
  <2>3. Held'
    BY <1>1, <1>4, <2>1 DEF Inv, Held
  <2>4. Stays'
    BY <1>1, <2>1, <2>2 DEF Inv, Stays, Looking
  <2>5. InOrder'
    BY <2>1 DEF InOrder
  <2>6. Quiet'
    BY <1>1, <1>4, <2>1, Unchanged DEF Inv, Quiet, Looking
  <2> QED BY <2>1, <2>2, <2>3, <2>4, <2>5, <2>6 DEF Inv, FilesStayServed
<1>5. CASE entry.is # "file" /\ Ends(Failed(404))
  <2>1. ~There
    BY <1>1, <1>5 DEF Inv, Stays, Looking
  <2> QED BY <1>1, <1>5, <2>1, EndInv
<1> QED BY <1>1, <1>2, <1>3, <1>4, <1>5

(* The file is opened.                                                     *)
LEMMA OpenInv ==
    ASSUME Inv, Open
    PROVE  Inv'
<1>1. /\ pc = "open_file" /\ entry' = entry /\ entry.is = "file"
      /\ entry.lmodified \in Content /\ entry.size \in Content /\ ~NotModified(entry)
  BY DEF Open, Inv, Held
<1>2. CASE Gone
  <2>1. ~There
    BY <1>2, ThereNow DEF Inv
  <2> QED BY <1>1, <1>2, <2>1, EndInv DEF Open
<1>3. CASE ~Gone
  <2>1. PICK v : v = site.contents[entry.name]
    OBVIOUS
  <2>2. /\ pc' = "send_body" /\ UNCHANGED <<site, request, history>>
        /\ stream' = [reads |-> v, linked |-> TRUE]
        /\ answer' = [status |-> 200, lmodified |-> entry.lmodified, size |-> entry.size,
                      body |-> <<>>]
    BY <1>3, <2>1 DEF Open
  <2>3. v \in Content /\ <<>> \in Seq(Content) /\ <<>> \in Seq({v})
    BY <1>3, <2>1 DEF Gone, Inv, Past
  <2>4. Past' /\ (There' <=> There)
    BY <1>1, <2>2, Unchanged
  <2>5. Held'
    BY <1>1, <2>2, <2>3 DEF Inv, Held, NotModified
  <2>6. Stays'
    BY <1>1, <2>2 DEF Stays, Looking
  <2>7. InOrder'
    <3>1. PICK versions, n, s : /\ versions = Versions(entry.name, history) /\ n = Len(history)
                                /\ s = <<entry.lmodified, entry.size>>
      OBVIOUS
    <3>2. n \in Nat \ {0} /\ DOMAIN versions = 1 .. n /\ versions[n] = v
      BY <2>1, <3>1, NowIs DEF Inv
    <3>3. s \in Seq(Content) /\ InTurn(s, versions)
      BY <1>1, <3>1 DEF Inv, InOrder
    <3>4. InTurn(Append(s, v), versions)
      BY <2>3, <3>2, <3>3, TurnNow
    <3>5. s \o <<>> = s
      BY <3>3, ConcatEmptySeq
    <3> QED BY <1>1, <2>2, <3>1, <3>4, <3>5 DEF InOrder, Versions
  <2>8. Quiet'
    BY <1>1, <2>1, <2>2, <2>3, Unchanged DEF Inv, Quiet, Looking
  <2> QED BY <2>2, <2>4, <2>5, <2>6, <2>7, <2>8 DEF Inv, FilesStayServed
<1> QED BY <1>2, <1>3

(* A chunk is sent.                                                        *)
LEMMA SendInv ==
    ASSUME Inv, Send
    PROVE  Inv'
<1>1. PICK v, body, l, z : v = stream.reads /\ body = answer.body /\ l = entry.lmodified /\ z = entry.size
  OBVIOUS
<1>2. /\ pc = "send_body" /\ v \in Content /\ body \in Seq(Content) /\ ~NotModified(entry)
      /\ answer = [status |-> 200, lmodified |-> l, size |-> z, body |-> body]
      /\ l \in Content /\ z \in Content /\ entry.is = "file"
  BY <1>1 DEF Send, Inv, Held
<1>3. /\ UNCHANGED <<site, request, entry, stream, history>> /\ pc' \in {"send_body", "done"}
      /\ answer' = [answer EXCEPT !.body = Append(body, v)]
  BY <1>1 DEF Send
<1>4. answer' = [status |-> 200, lmodified |-> l, size |-> z, body |-> Append(body, v)]
  BY <1>2, <1>3
<1>5. Append(body, v) \in Seq(Content)
  BY <1>2
<1>6. Past' /\ (There' <=> There)
  BY <1>3, Unchanged
<1>7. Held'
  BY <1>1, <1>2, <1>3, <1>4, <1>5 DEF Inv, Held, NotModified
<1>8. Stays'
  BY <1>2, <1>3, <1>6 DEF Inv, Stays, Looking
<1>9. PICK versions, n, s : /\ versions = Versions(entry.name, history) /\ n = Len(history)
                            /\ s = <<l, z>> \o body
  OBVIOUS
<1>10. <<l, z>> \o Append(body, v) = Append(s, v) /\ s \in Seq(Content)
  <2>1. <<l, z>> \in Seq(Content) /\ <<v>> \in Seq(Content)
    BY <1>2
  <2>2. s \in Seq(Content)
    BY <1>2, <1>9, <2>1, ConcatProperties
  <2>3. Append(body, v) = body \o <<v>> /\ Append(s, v) = s \o <<v>>
    BY <1>2, <2>2, AppendIsConcat
  <2>4. <<l, z>> \o (body \o <<v>>) = (<<l, z>> \o body) \o <<v>>
    BY <1>2, <2>1, ConcatAssociative
  <2> QED BY <1>9, <2>2, <2>3, <2>4
<1>11. InTurn(Append(s, v), versions) /\ InTurn(Append(Append(s, v), v), versions)
  <2>1. n \in Nat /\ DOMAIN versions = 1 .. n
    BY <1>9, NowIs DEF Inv
  <2>2. InTurn(Append(s, v), versions)
    BY <1>1, <1>2, <1>9 DEF Inv, InOrder
  <2> QED BY <1>2, <1>10, <2>1, <2>2, TurnAgain
<1>12. InOrder'
  BY <1>1, <1>3, <1>4, <1>9, <1>10, <1>11 DEF InOrder, Versions
<1>13. Quiet'
  <2>1. Len(history) = 1 =>
          /\ Exists(site, FilePath) /\ entry.name = NameOf(site, FilePath)
          /\ entry.is = Type(site.contents[entry.name])
          /\ entry.lmodified = site.contents[entry.name]
          /\ entry.is = "file" => entry.size = site.contents[entry.name]
          /\ v = site.contents[entry.name] /\ body \in Seq({v})
    BY <1>1, <1>2 DEF Inv, Quiet, Looking
  <2>2. Len(history) = 1 => Append(body, v) \in Seq({v})
    BY <2>1
  <2> QED BY <1>1, <1>3, <1>4, <2>1, <2>2, Unchanged DEF Quiet, Looking
<1>14. FilesStayServed'
  <2>1. /\ answer'.status = 200 /\ answer'.lmodified = l /\ answer'.size = z
        /\ <<answer'.lmodified, answer'.size>> \o answer'.body = Append(s, v)
    BY <1>4, <1>10
  <2>2. Versions(entry.name, history)' = versions
    BY <1>3, <1>9 DEF Versions
  <2>3. InTurn(<<answer'.lmodified, answer'.size>> \o answer'.body, Versions(entry.name, history)')
    BY <1>11, <2>1, <2>2
  <2> QED BY <2>1, <2>3 DEF FilesStayServed, Versions
<1> QED BY <1>6, <1>7, <1>8, <1>12, <1>13, <1>14 DEF Inv

(* Files that are written, removed or put back stay files, and what was    *)
(* seen of them was there before.                                          *)
LEMMA ChangeInv ==
    ASSUME Inv, Change
    PROVE  Inv'
<1>1. /\ pc # "done" /\ history' = Append(history, site'.contents) /\ site.kind = "os"
      /\ UNCHANGED <<allow_listing, request, pc, entry, answer, followed>>
  BY DEF Change
<1>2. PICK c, h, name : c = site'.contents /\ h = history' /\ h = Append(history, c) /\ name = entry.name
  BY <1>1
<1>0. PICK f \in DOMAIN history[1] :
         \/ site' = [kind |-> "os", contents |-> Removed(f)] /\ stream' = Apart(f)
         \/ \E v \in Version :
               /\ site' = [kind |-> "os", contents |-> Written(f, v)]
               /\ stream' \in {Apart(f), Rewritten(f, v)}
  BY DEF Change
<1>3. /\ site'.kind = "os"
      /\ \/ c = Removed(f) /\ stream' = Apart(f)
         \/ \E v \in Version : c = Written(f, v) /\ stream' \in {Apart(f), Rewritten(f, v)}
  BY <1>0, <1>2
<1>4. site'.kind = "os"
  BY <1>3
<1>5. /\ DOMAIN c \subseteq DOMAIN site.contents \cup {f}
      /\ \A x \in DOMAIN c : c[x] \in Version \/ (x \in DOMAIN site.contents /\ c[x] = site.contents[x])
  BY <1>3 DEF Removed, Written, Restrict
<1>6. /\ \E T : h \in Seq(T)
      /\ Len(history) \in Nat \ {0} /\ Len(h) = Len(history) + 1
      /\ h # <<>> /\ h[Len(h)] = c
      /\ \A i \in 1 .. Len(history) : h[i] = history[i]
      /\ DOMAIN history = 1 .. Len(history) /\ DOMAIN h = 1 .. Len(h)
  <2>1. Past
    BY DEF Inv
  <2>2. h = Append(history, c)
    BY <1>2
  <2> QED BY <2>1, <2>2, Appended, Zenon
<1>7. Past'
  <2>1. \A x \in DOMAIN c : c[x] \in Content
    BY <1>5 DEF Inv, Past, Content
  <2>2. h[1] = history[1] /\ Nothing \notin DOMAIN c \cup DOMAIN history[1]
    BY <1>0, <1>5, <1>6 DEF Inv, Past
  <2> QED BY <1>2, <1>6, <2>1, <2>2 DEF Past
<1>8. FilePath' = FilePath /\ Said(site, FilePath)' = Said(site, FilePath)
  BY <1>1, <1>4 DEF FilePath, Said
<1>9. PICK versions, more : versions = Versions(name, history) /\ more = Versions(name, h)
  OBVIOUS
<1>10. /\ DOMAIN versions = 1 .. Len(history) /\ DOMAIN more = 1 .. Len(h)
       /\ \A k \in 1 .. Len(history) : more[k] = versions[k] /\ k \in 1 .. Len(h)
       /\ more[Len(h)] = c[name]
  BY <1>6, <1>9 DEF Versions
<1>11. ASSUME NEW seen, InTurn(seen, versions) PROVE InTurn(seen, more)
  BY <1>10, <1>11, TurnLater
<1>12. stream'.reads = stream.reads \/ (stream'.reads = c[name] /\ name \in DOMAIN c /\ c[name] \in Version)
  <2>1. PICK r : r = stream'
    OBVIOUS
  <2>2. \/ r = [stream EXCEPT !.linked = FALSE] \/ r = stream
        \/ \E v \in Version : c = Written(name, v) /\ r = [stream EXCEPT !.reads = v]
    BY <1>2, <1>3, <2>1 DEF Apart, Rewritten
  <2>3. r = stream \/ r.reads = stream.reads \/ \E v \in Version : c = Written(name, v) /\ r.reads = v
    BY <2>2 DEF Inv, Held
  <2> QED BY <2>1, <2>3 DEF Written
<1>13. stream' = [reads |-> stream'.reads, linked |-> stream'.linked]
  <2>1. PICK r : r = stream'
    OBVIOUS
  <2>2. \/ r = [stream EXCEPT !.linked = FALSE] \/ r = stream
        \/ \E v \in Version : r = [stream EXCEPT !.reads = v]
    BY <1>3, <2>1 DEF Apart, Rewritten
  <2> QED BY <2>1, <2>2 DEF Inv, Held
<1>14. There' => There /\ name \in DOMAIN c /\ c[name] \in Version
  BY <1>1, <1>2, <1>6 DEF There
<1>15. Held'
  BY <1>1, <1>8, <1>12, <1>13 DEF Inv, Held, NotModified, Content
<1>16. Stays'
  <2> SUFFICES ASSUME There', pc = "status" PROVE TypeOf(site, FilePath)' = "file"
      BY <1>1, <1>14 DEF Inv, Stays
  <2>1. PICK p, new : p = Said(site, FilePath) /\ new = site'
    OBVIOUS
  <2>2. TypeOf(site, FilePath)' = TypeOf(new, FilePath) /\ new.contents = c /\ Said(new, FilePath) = p
    BY <1>2, <1>8, <2>1
  <2>3. TypeOf(site, FilePath) = "file" /\ name \in {p, Append(p, Slash)}
    BY <1>2, <1>14, <2>1 DEF Inv, Stays, Held
  <2>4. /\ NameOf(site, FilePath) = AsName(site, p) /\ NameOf(site, FilePath) # Nothing
        /\ Type(site.contents[AsName(site, p)]) = "file"
    BY <2>1, <2>3, NameSaid DEF TypeOf, Exists
  <2>5. NameOf(new, FilePath) = AsName(new, p)
    BY <2>2, NameSaid
  <2>6. Nothing \notin DOMAIN c
    BY <1>2, <1>6, <1>7 DEF Past
  <2>7. CASE p \in DOMAIN c
    <3>1. NameOf(new, FilePath) = p /\ p # Nothing
      BY <2>2, <2>5, <2>6, <2>7 DEF AsName
    <3>2. c[p] \in Version => Type(c[p]) = "file"
      BY DEF Type, Version
    <3>3. p \in DOMAIN site.contents /\ c[p] = site.contents[p] => Type(c[p]) = "file"
      BY <2>4 DEF AsName
    <3>4. Type(c[p]) = "file"
      BY <1>5, <2>7, <3>2, <3>3
    <3> QED BY <2>2, <3>1, <3>4 DEF TypeOf, Exists
  <2>8. CASE p \notin DOMAIN c
    <3>1. name = Append(p, Slash) /\ name \in DOMAIN c /\ c[name] \in Version
      BY <1>14, <2>3, <2>8
    <3>2. NameOf(new, FilePath) = name /\ name # Nothing
      BY <2>2, <2>5, <2>6, <2>8, <3>1 DEF AsName
    <3>3. Type(c[name]) = "file"
      BY <3>1 DEF Type, Version
    <3> QED BY <2>2, <3>2, <3>3 DEF TypeOf, Exists
  <2> QED BY <2>7, <2>8
<1>17. InOrder'
  <2>1. Versions(entry.name, history)' = more
    BY <1>1, <1>2, <1>9
  <2>2. PICK seen : seen = <<entry.lmodified, entry.size>> \o answer.body
    OBVIOUS
  <2>3. ASSUME pc = "send_body" PROVE InTurn(Append(seen, stream'.reads), more)
    <3>1. /\ answer.body \in Seq(Content) /\ entry.lmodified \in Content /\ entry.size \in Content
          /\ stream.reads \in Content
      BY <2>3 DEF Inv, Held
    <3>2. seen \in Seq(Content)
      <4>1. <<entry.lmodified, entry.size>> \in Seq(Content)
        BY <3>1
      <4> QED BY <2>2, <3>1, <4>1, ConcatProperties
    <3>3. InTurn(Append(seen, stream.reads), more)
      BY <1>2, <1>9, <1>11, <2>2, <2>3 DEF Inv, InOrder
    <3>4. ASSUME stream'.reads = c[name], c[name] \in Version
          PROVE  InTurn(Append(seen, c[name]), more)
      <4>1. InTurn(seen, more)
        BY <3>1, <3>2, <3>3, TurnFewer
      <4>2. c[name] \in Content /\ Len(h) \in Nat \ {0}
        BY <1>6, <3>4 DEF Content
      <4> QED BY <1>10, <3>2, <4>1, <4>2, TurnNow
    <3> QED BY <1>12, <3>3, <3>4
  <2>4. pc = "file_size" => InTurn(<<entry.lmodified>>, more)
    BY <1>2, <1>9, <1>11 DEF Inv, InOrder
  <2>5. pc \in {"is_file", "open_file"} /\ entry.is = "file" =>
           InTurn(<<entry.lmodified, entry.size>>, more)
    BY <1>2, <1>9, <1>11 DEF Inv, InOrder
  <2> QED BY <1>1, <2>1, <2>2, <2>3, <2>4, <2>5 DEF InOrder
<1>18. Quiet'
  BY <1>2, <1>6 DEF Quiet
<1> QED BY <1>1, <1>7, <1>15, <1>16, <1>17, <1>18 DEF Inv, FilesStayServed

(* A new request starts with nothing held.                                 *)
LEMMA FollowInv ==
    ASSUME Inv, Follow
    PROVE  Inv'
<1>1. /\ pc' = "start" /\ entry' = NoEntry /\ stream' = NoStream /\ site' = site
      /\ history' = <<site.contents>>
  BY DEF Follow
<1>2. Past'
  <2>1. PICK c : c = site.contents
    OBVIOUS
  <2>2. <<c>> \in Seq({c}) /\ <<c>> # <<>> /\ Len(<<c>>) = 1 /\ <<c>>[1] = c
    OBVIOUS
  <2> QED BY <1>1, <2>1, <2>2 DEF Inv, Past
<1>3. Held' /\ Stays' /\ InOrder' /\ Quiet'
  BY <1>1 DEF Held, Stays, InOrder, Quiet, Looking, NoEntry, NoStream
<1> QED BY <1>1, <1>2, <1>3 DEF Inv, FilesStayServed

(* Every step keeps the invariant.                                         *)
LEMMA NextInv == Inv /\ [Next]_vars => Inv'
<1>1. ASSUME Inv, UNCHANGED vars PROVE Inv'
  <2>1. UNCHANGED <<site, request, pc, entry, stream, answer, history>>
    BY <1>1 DEF vars
  <2>2. Past' /\ (There' <=> There) /\ FilePath' = FilePath
    BY <1>1, <2>1, Unchanged
  <2>3. Held'
    BY <1>1, <2>1, <2>2 DEF Inv, Held, NotModified
  <2>4. Stays' /\ InOrder' /\ Quiet' /\ FilesStayServed'
    BY <1>1, <2>1, <2>2 DEF Inv, Stays, InOrder, Versions, Quiet, FilesStayServed
  <2> QED BY <2>2, <2>3, <2>4 DEF Inv
<1> QED BY <1>1, ChangeInv, CanonicalInv, StatusInv, LastWriteTimeInv, FileSizeInv, DecideInv,
           OpenInv, SendInv, NoFileInv, FollowInv DEF Next

(* A file that is there throughout the request is served.  Its time, its   *)
(* size and the chunks of its body are looked at one after the other, and  *)
(* each may be of a later version than the one before: of no earlier one.  *)
THEOREM FilesServed == Spec => []FilesStayServed
<1>1. Inv => FilesStayServed
  BY DEF Inv
<1> QED BY InitInv, NextInv, <1>1, PTL DEF Spec

-----------------------------------------------------------------------------
(* The coding of characters.                                               *)


(* The digits of a byte are read back. *)
LEMMA HexBack ==
    ASSUME NEW c \in Byte
    PROVE  HexByte(HexDigit(c \div 16), HexDigit(c % 16)) = c
<1>1. PICK h \in 0 .. 15, l \in 0 .. 15 : h = c \div 16 /\ l = c % 16 /\ c = 16 * h + l
  BY DEF Byte
<1>2. ASSUME NEW n \in 0 .. 15 PROVE HexValue(HexDigit(n)) = n
  BY DEF HexValue, HexDigit, Digit
<1>3. HexValue(HexDigit(h)) = h /\ HexValue(HexDigit(l)) = l
  BY <1>2
<1>4. Wrong \notin {h, l}
  BY DEF Wrong
<1> QED BY <1>1, <1>3, <1>4 DEF HexByte

(* A code is a character that means itself, or a percent sign and two      *)
(* digits; no code has a character that separates parameters.              *)
LEMMA CodeIs ==
    ASSUME NEW c \in Byte
    PROVE  /\ Code(c) \in Seq(Byte \ {Amp, Equal, Question})
           /\ \/ Code(c) = <<c>> /\ c # Percent
              \/ Code(c) = <<Percent, HexDigit(c \div 16), HexDigit(c % 16)>>
<1>1. ASSUME NEW n \in 0 .. 15 PROVE HexDigit(n) \in Byte \ {Amp, Equal, Question}
  BY DEF HexDigit, Byte, Amp, Equal, Question
<1>2. c \div 16 \in 0 .. 15 /\ c % 16 \in 0 .. 15
  BY DEF Byte
<1>3. CASE c \in Unreserved
  <2>1. c \in Byte \ {Amp, Equal, Question} /\ c # Percent
    BY <1>3 DEF Unreserved, Digit, Lower, Upper, Dot, Amp, Equal, Question, Percent
  <2> QED BY <1>3, <2>1 DEF Code
<1>4. CASE c \notin Unreserved
  <2>1. Percent \in Byte \ {Amp, Equal, Question}
    BY DEF Percent, Byte, Amp, Equal, Question
  <2>2. PICK h \in Byte \ {Amp, Equal, Question}, l \in Byte \ {Amp, Equal, Question} :
           h = HexDigit(c \div 16) /\ l = HexDigit(c % 16)
    BY <1>1, <1>2
  <2>3. <<Percent, h, l>> \in Seq(Byte \ {Amp, Equal, Question})
    BY <2>1
  <2> QED BY <1>4, <2>2, <2>3 DEF Code
<1> QED BY <1>3, <1>4

Plain == Byte \ {Amp, Equal, Question}

(* What the loop of url_encode has after each character.                   *)
Codes(g, s) == g = [i \in 0 .. Len(s) |-> IF i = 0 THEN <<>> ELSE g[i - 1] \o Code(s[i])]

(* url_encode is its loop, run to the end of the text.                     *)
LEMMA EncodedIs ==
    ASSUME NEW s \in Text
    PROVE  \E g \in [0 .. Len(s) -> Seq(Plain)] :
              /\ g[0] = <<>> /\ \A i \in 1 .. Len(s) : g[i] = g[i - 1] \o Code(s[i])
              /\ Encoded(s) = g[Len(s)]
<1>1. PICK n \in Nat : n = Len(s)
  BY DEF Text
<1> DEFINE T == Seq(Plain)
<1>2. ASSUME NEW i \in 1 .. n PROVE Code(s[i]) \in T
  BY <1>1, CodeIs DEF Text, Plain
<1>3. [p \in (1 .. n) \X T |-> p[2] \o Code(s[p[1]])] \in [(1 .. n) \X T -> T]
  BY <1>2
<1>4. PICK F : Makes(F, n, T) /\ \A i \in 1 .. n, x \in T : F[<<i, x>>] = x \o Code(s[i])
  <2>1. PICK F : F = [p \in (1 .. n) \X T |-> p[2] \o Code(s[p[1]])]
    OBVIOUS
  <2>2. \A i \in 1 .. n, x \in T : F[<<i, x>>] = x \o Code(s[i])
    BY <2>1
  <2>3. Makes(F, n, T)
    BY <1>3, <2>1, Zenon DEF Makes
  <2> QED BY <2>2, <2>3
<1>5. PICK b \in T : b = <<>>
  <2>1. <<>> \in T
    OBVIOUS
  <2> HIDE DEF T
  <2> QED BY <2>1, Zenon
<1> HIDE DEF T
<1>6. PICK f : Follows(f, F, n, T, b)
  BY <1>4, Recursion
<1>7. /\ f \in [0 .. n -> T] /\ f = [i \in 0 .. n |-> f[i]] /\ f[0] = <<>>
      /\ \A i \in 1 .. n : f[i] = f[i - 1] \o Code(s[i])
  <2>1. f \in [0 .. n -> T] /\ f[0] = b /\ \A i \in 1 .. n : f[i] = F[<<i, f[i - 1]>>]
    BY <1>6 DEF Follows
  <2>2. ASSUME NEW i \in 1 .. n PROVE f[i - 1] \in T
    BY <2>1
  <2> QED BY <1>4, <1>5, <2>1, <2>2
<1>8. ASSUME NEW g PROVE Codes(g, s) <=>
         g = [i \in 0 .. n |-> IF i = 0 THEN <<>> ELSE g[i - 1] \o Code(s[i])]
  BY <1>1 DEF Codes
<1>9. Codes(f, s)
  <2>1. ASSUME NEW i \in 0 .. n PROVE f[i] = IF i = 0 THEN <<>> ELSE f[i - 1] \o Code(s[i])
    <3>1. CASE i = 0
      BY <1>7, <3>1
    <3>2. CASE i # 0
      <4>1. i \in 1 .. n
        BY <3>2
      <4>2. f[i] = f[i - 1] \o Code(s[i])
        BY <1>7, <4>1
      <4> QED BY <3>2, <4>2
    <3> QED BY <3>1, <3>2
  <2>2. f = [i \in 0 .. n |-> IF i = 0 THEN <<>> ELSE f[i - 1] \o Code(s[i])]
    BY <1>7, <2>1
  <2> QED BY <1>8, <2>2
<1>10. PICK g : g = (CHOOSE h : Codes(h, s)) /\ Encoded(s) = g[Len(s)]
  BY DEF Encoded, Codes
<1>11. Codes(g, s)
  BY <1>9, <1>10
<1>12. g = [i \in 0 .. n |-> IF i = 0 THEN <<>> ELSE g[i - 1] \o Code(s[i])]
  BY <1>8, <1>11
<1>13. f = g
  <2>1. g = [i \in 0 .. n |-> g[i]] /\ g[0] = <<>>
    BY <1>12
  <2>2. \A i \in 1 .. n : g[i] = g[i - 1] \o Code(s[i])
    BY <1>12
  <2>3. \A i \in 1 .. n : f[i - 1] = g[i - 1] => f[i] = g[i]
    BY <1>7, <2>2
  <2>4. Agrees(f, g, n)
    BY <1>7, <2>1, <2>3 DEF Agrees
  <2> QED BY <2>4, Agreement
<1> QED BY <1>1, <1>7, <1>10, <1>13 DEF T

StartsWith(t, s) == Len(t) <= Len(s) /\ \A j \in 1 .. Len(t) : s[j] = t[j]

(* Of sequences that grow each is the start of the last. *)
LEMMA Growing ==
    ASSUME NEW n \in Nat, NEW T, NEW f \in [0 .. n -> Seq(T)],
           \A i \in 1 .. n : StartsWith(f[i - 1], f[i])
    PROVE  \A i \in 0 .. n : StartsWith(f[i], f[n])
<1> DEFINE S == {m \in Nat : m <= n => StartsWith(f[n - m], f[n])}
<1>1. 0 \in S
  <2>1. n - 0 = n
    OBVIOUS
  <2>2. PICK t \in Seq(T) : t = f[n]
    OBVIOUS
  <2>3. StartsWith(t, t)
    BY DEF StartsWith
  <2> QED BY <2>1, <2>2, <2>3
<1>2. ASSUME NEW m \in S PROVE m + 1 \in S
  <2>1. m \in Nat /\ m + 1 \in Nat
    OBVIOUS
  <2>2. ASSUME m + 1 <= n PROVE StartsWith(f[n - (m + 1)], f[n])
    <3>1. n - m \in 1 .. n /\ n - m \in 0 .. n /\ n - (m + 1) \in 0 .. n /\ n \in 0 .. n
          /\ (n - m) - 1 = n - (m + 1)
      BY <2>1, <2>2
    <3>2. PICK a \in Seq(T), b \in Seq(T), c \in Seq(T) :
             a = f[n - (m + 1)] /\ b = f[n - m] /\ c = f[n]
      BY <3>1
    <3>3. StartsWith(b, c)
      BY <2>1, <2>2, <3>2
    <3>4. StartsWith(a, b)
      <4>1. StartsWith(f[(n - m) - 1], f[n - m])
        BY <3>1
      <4> QED BY <3>1, <3>2, <4>1
    <3>5. StartsWith(a, c)
      BY <3>3, <3>4 DEF StartsWith
    <3> QED BY <3>2, <3>5
  <2> QED BY <2>1, <2>2
<1>3. S = Nat
  <2>1. S \in SUBSET Nat
    OBVIOUS
  <2> HIDE DEF S
  <2> QED BY <1>1, <1>2, <2>1, SetInduction
<1>4. ASSUME NEW i \in 0 .. n PROVE StartsWith(f[i], f[n])
  <2>1. n - i \in Nat /\ n - i <= n /\ n - (n - i) = i
    OBVIOUS
  <2>2. n - i \in S
    <3> HIDE DEF S
    <3> QED BY <1>3, <2>1
  <2> QED BY <2>1, <2>2
<1> QED BY <1>4

(* Where the code of each character is found. *)
LEMMA EncodedAt ==
    ASSUME NEW s \in Text
    PROVE  /\ Encoded(s) \in Seq(Plain)
           /\ \E at \in [0 .. Len(s) -> Nat] :
                 /\ at[0] = 0 /\ at[Len(s)] = Len(Encoded(s))
                 /\ \A i \in 1 .. Len(s) :
                       /\ at[i] = at[i - 1] + Len(Code(s[i])) /\ at[i] <= Len(Encoded(s))
                       /\ \A j \in 1 .. Len(Code(s[i])) :
                             Encoded(s)[at[i - 1] + j] = Code(s[i])[j]
<1>1. PICK n \in Nat : n = Len(s)
  BY DEF Text
<1>2. PICK g \in [0 .. n -> Seq(Plain)] :
          /\ g[0] = <<>> /\ \A i \in 1 .. n : g[i] = g[i - 1] \o Code(s[i])
          /\ Encoded(s) = g[n]
  BY <1>1, EncodedIs
<1>3. PICK e \in Seq(Plain) : e = Encoded(s) /\ e = g[n]
  BY <1>2
<1>4. ASSUME NEW i \in 1 .. n
      PROVE  /\ StartsWith(g[i - 1], g[i]) /\ Len(g[i]) = Len(g[i - 1]) + Len(Code(s[i]))
             /\ \A j \in 1 .. Len(Code(s[i])) : g[i][Len(g[i - 1]) + j] = Code(s[i])[j]
  <2>0. Code(s[i]) \in Seq(Plain) /\ g[i - 1] \in Seq(Plain)
    <3>1. s[i] \in Byte
      BY <1>1 DEF Text
    <3> QED BY <3>1, CodeIs DEF Plain
  <2>1. PICK a \in Seq(Plain), c \in Seq(Plain) : a = g[i - 1] /\ c = Code(s[i])
    BY <2>0
  <2>2. StartsWith(a, a \o c) /\ Len(a \o c) = Len(a) + Len(c)
        /\ \A j \in 1 .. Len(c) : (a \o c)[Len(a) + j] = c[j]
    BY DEF StartsWith
  <2> QED BY <1>2, <2>1, <2>2
<1>5. \A i \in 0 .. n : StartsWith(g[i], e)
  BY <1>3, <1>4, Growing
<1>6. PICK at : at = [i \in 0 .. n |-> Len(g[i])]
  OBVIOUS
<1>7. at \in [0 .. n -> Nat] /\ at[0] = 0 /\ at[n] = Len(e)
  BY <1>2, <1>3, <1>6
<1>8. ASSUME NEW i \in 1 .. n
      PROVE  /\ at[i] = at[i - 1] + Len(Code(s[i])) /\ at[i] <= Len(e)
             /\ \A j \in 1 .. Len(Code(s[i])) : e[at[i - 1] + j] = Code(s[i])[j]
  <2>1. at[i] = Len(g[i]) /\ at[i - 1] = Len(g[i - 1])
    BY <1>6
  <2>2. StartsWith(g[i], e)
    BY <1>5
  <2>3. Len(Code(s[i])) \in Nat
    BY <1>1, CodeIs DEF Text
  <2>4. Len(g[i - 1]) \in Nat
    BY <1>2
  <2>5. ASSUME NEW j \in 1 .. Len(Code(s[i])) PROVE e[Len(g[i - 1]) + j] = Code(s[i])[j]
    <3>1. Len(g[i - 1]) + j \in 1 .. Len(g[i])
      <4>1. PICK a \in Nat, c \in Nat : a = Len(g[i - 1]) /\ c = Len(Code(s[i]))
        BY <2>3, <2>4
      <4>2. j \in 1 .. c
        BY <4>1
      <4>4. a + j \in 1 .. a + c
        BY <4>2
      <4>3. Len(g[i]) = a + c
        BY <1>4, <4>1
      <4> QED BY <4>1, <4>3, <4>4
    <3> QED BY <1>4, <2>2, <3>1 DEF StartsWith
  <2> QED BY <1>4, <2>1, <2>2, <2>5 DEF StartsWith
<1> QED BY <1>1, <1>3, <1>7, <1>8

-----------------------------------------------------------------------------
(* Decoding.                                                               *)

State == [res : Seq(Nat), digits : Nat]
Begun == [res |-> <<>>, digits |-> 0]

Reading(g, e) == g = [i \in 0 .. Len(e) |-> IF i = 0 THEN Begun ELSE Read(e, i, g[i - 1])]

(* Reading a byte of a text leaves a text and a number of digits.          *)
LEMMA ReadState ==
    ASSUME NEW e \in Text, NEW i \in 1 .. Len(e), NEW b \in State
    PROVE  Read(e, i, b) \in State
<1>0. PICK n \in Nat : n = Len(e) /\ \A k \in 1 .. n : e[k] \in Nat
  <2>1. Byte \subseteq Nat
    BY DEF Byte
  <2>2. Len(e) \in Nat /\ \A k \in 1 .. Len(e) : e[k] \in Byte
    BY DEF Text
  <2> QED BY <2>1, <2>2
<1>1. ASSUME NEW k \in Nat PROVE At(e, k) \in Nat
  BY <1>0 DEF At
<1>2. ASSUME NEW c \in Nat PROVE HexValue(c) \in Nat
  <2>1. CASE c \in Digit
    <3>0. c \notin 65 .. 70 /\ c \notin 97 .. 102
      BY <2>1 DEF Digit
    <3>1. HexValue(c) = c - 48
      BY <2>1, <3>0, Zenon DEF HexValue
    <3> QED BY <2>1, <3>1 DEF Digit
  <2>2. CASE c \notin Digit /\ c \in 65 .. 70
    <3>0. c \notin 97 .. 102
      BY <2>2
    <3>1. HexValue(c) = c - 55
      BY <2>2, <3>0, Zenon DEF HexValue
    <3> QED BY <2>2, <3>1
  <2>3. CASE c \notin Digit /\ c \notin 65 .. 70 /\ c \in 97 .. 102
    <3>1. HexValue(c) = c - 87
      BY <2>3, Zenon DEF HexValue
    <3> QED BY <2>3, <3>1
  <2>4. CASE c \notin Digit /\ c \notin 65 .. 70 /\ c \notin 97 .. 102
    BY <2>4 DEF HexValue, Wrong
  <2> QED BY <2>1, <2>2, <2>3, <2>4
<1>3. ASSUME NEW c \in Nat, NEW d \in Nat PROVE HexByte(c, d) \in Nat
  <2>1. PICK x \in Nat, y \in Nat : x = HexValue(c) /\ y = HexValue(d)
    BY <1>2
  <2> QED BY <2>1 DEF HexByte, Wrong
<1>4. i + 1 \in Nat /\ i + 2 \in Nat /\ e[i] \in Nat
  BY <1>0
<1>5. PICK x \in Nat, y \in Nat : x = e[i] /\ y = HexByte(At(e, i + 1), At(e, i + 2))
  BY <1>1, <1>3, <1>4
<1>6. /\ b.digits \in Nat /\ b.res \in Seq(Nat)
      /\ Append(b.res, x) \in Seq(Nat) /\ Append(b.res, y) \in Seq(Nat)
  BY DEF State
<1>7. b.digits > 0 => [b EXCEPT !.digits = @ - 1] \in State
  <2>1. PICK d : d = b.digits - 1
    OBVIOUS
  <2>2. b.digits > 0 => d \in Nat
    BY <1>6, <2>1
  <2>3. d \in Nat => [b EXCEPT !.digits = d] \in State
    BY DEF State
  <2> QED BY <2>1, <2>2, <2>3
<1> QED BY <1>5, <1>6, <1>7 DEF Read, State

(* url_decode is its loop, run to the end of the text.                     *)
LEMMA DecodedIs ==
    ASSUME NEW e \in Text
    PROVE  \E g \in [0 .. Len(e) -> State] :
              /\ g[0] = Begun /\ \A i \in 1 .. Len(e) : g[i] = Read(e, i, g[i - 1])
              /\ Decoded(e) = g[Len(e)].res
<1>1. PICK n \in Nat : n = Len(e)
  BY DEF Text
<1>2. ASSUME NEW i \in 1 .. n, NEW x \in State PROVE Read(e, i, x) \in State
  BY <1>1, ReadState
<1>4. PICK F : Makes(F, n, State) /\ \A i \in 1 .. n, x \in State : F[<<i, x>>] = Read(e, i, x)
  <2>1. PICK F : F = [p \in (1 .. n) \X State |-> Read(e, p[1], p[2])]
    OBVIOUS
  <2>2. \A i \in 1 .. n, x \in State : F[<<i, x>>] = Read(e, i, x)
    BY <2>1
  <2>3. F \in [(1 .. n) \X State -> State]
    BY <1>2, <2>1
  <2> QED BY <2>2, <2>3 DEF Makes
<1>5. Begun \in State
  BY DEF Begun, State
<1>6. PICK f : Follows(f, F, n, State, Begun)
  BY <1>4, <1>5, Recursion
<1>7. /\ f \in [0 .. n -> State] /\ f = [i \in 0 .. n |-> f[i]] /\ f[0] = Begun
      /\ \A i \in 1 .. n : f[i] = Read(e, i, f[i - 1])
  <2>1. f \in [0 .. n -> State] /\ f[0] = Begun /\ \A i \in 1 .. n : f[i] = F[<<i, f[i - 1]>>]
    BY <1>6 DEF Follows
  <2>2. ASSUME NEW i \in 1 .. n PROVE f[i - 1] \in State
    BY <2>1
  <2> QED BY <1>4, <2>1, <2>2
<1>8. ASSUME NEW g PROVE Reading(g, e) <=>
         g = [i \in 0 .. n |-> IF i = 0 THEN Begun ELSE Read(e, i, g[i - 1])]
  BY <1>1 DEF Reading
<1>9. Reading(f, e)
  <2>1. ASSUME NEW i \in 0 .. n PROVE f[i] = IF i = 0 THEN Begun ELSE Read(e, i, f[i - 1])
    <3>1. CASE i = 0
      BY <1>7, <3>1
    <3>2. CASE i # 0
      <4>1. i \in 1 .. n
        BY <3>2
      <4>2. f[i] = Read(e, i, f[i - 1])
        BY <1>7, <4>1
      <4> QED BY <3>2, <4>2
    <3> QED BY <3>1, <3>2
  <2>2. f = [i \in 0 .. n |-> IF i = 0 THEN Begun ELSE Read(e, i, f[i - 1])]
    BY <1>7, <2>1
  <2> QED BY <1>8, <2>2
<1>10. PICK g : g = (CHOOSE h : Reading(h, e)) /\ Decoded(e) = g[Len(e)].res
  BY DEF Decoded, Reading, Begun
<1>11. Reading(g, e)
  BY <1>9, <1>10
<1>12. g = [i \in 0 .. n |-> IF i = 0 THEN Begun ELSE Read(e, i, g[i - 1])]
  BY <1>8, <1>11
<1>13. f = g
  <2>1. g = [i \in 0 .. n |-> g[i]] /\ g[0] = Begun
    BY <1>12
  <2>2. \A i \in 1 .. n : g[i] = Read(e, i, g[i - 1])
    BY <1>12
  <2>3. \A i \in 1 .. n : f[i - 1] = g[i - 1] => f[i] = g[i]
    BY <1>7, <2>2
  <2>4. f[0] = g[0]
    BY <1>7, <2>1
  <2>5. f = [i \in 0 .. n |-> f[i]] /\ g = [i \in 0 .. n |-> g[i]]
    BY <1>7, <2>1
  <2>6. Agrees(f, g, n)
    BY <2>3, <2>4, <2>5 DEF Agrees
  <2> QED BY <2>6, Agreement
<1> QED BY <1>1, <1>7, <1>10, <1>13

(* url_decode gives back what url_encode was given. *)
LEMMA DecodedEncoded ==
    ASSUME NEW s \in Text
    PROVE  Decoded(Encoded(s)) = s
<1>1. PICK n \in Nat : n = Len(s)
  BY DEF Text
<1>2. PICK e \in Seq(Plain) : e = Encoded(s)
  BY EncodedAt
<1>3. PICK at \in [0 .. n -> Nat] :
         /\ at[0] = 0 /\ at[n] = Len(e)
         /\ \A i \in 1 .. n :
               /\ at[i] = at[i - 1] + Len(Code(s[i])) /\ at[i] <= Len(e)
               /\ \A j \in 1 .. Len(Code(s[i])) : e[at[i - 1] + j] = Code(s[i])[j]
  BY <1>1, <1>2, EncodedAt
<1>4. e \in Text
  BY DEF Text, Plain
<1>5. PICK g \in [0 .. Len(e) -> State] :
         /\ g[0] = Begun /\ \A i \in 1 .. Len(e) : g[i] = Read(e, i, g[i - 1])
         /\ Decoded(e) = g[Len(e)].res
  BY <1>4, DecodedIs
<1> DEFINE Read_(k) == /\ g[at[k]].digits = 0 /\ Len(g[at[k]].res) = k
                       /\ \A j \in 1 .. k : g[at[k]].res[j] = s[j]
           S == {k \in Nat : k <= n => Read_(k)}
<1>6. 0 \in S
  BY <1>3, <1>5 DEF Begun
<1>7. ASSUME NEW k \in S PROVE k + 1 \in S
  <2>1. k \in Nat /\ k + 1 \in Nat
    OBVIOUS
  <2>2. ASSUME k + 1 <= n PROVE Read_(k + 1)
    <3>1. k \in 0 .. n /\ k + 1 \in 1 .. n /\ k + 1 \in 0 .. n /\ (k + 1) - 1 = k
      BY <2>1, <2>2
    <3>2. PICK c \in Byte : c = s[k + 1]
      BY <1>1, <3>1 DEF Text
    <3>3. PICK o \in Nat, m \in Nat, l \in Nat : o = at[k] /\ m = at[k + 1] /\ l = Len(e)
      BY <1>3, <1>4, <3>1 DEF Text
    <3>4. PICK code : code = Code(c)
      OBVIOUS
    <3>5. m = o + Len(code) /\ m <= l /\ \A j \in 1 .. Len(code) : e[o + j] = code[j]
      BY <1>3, <3>1, <3>2, <3>3, <3>4
    <3>6. PICK b \in State : b = g[o] /\ b.digits = 0 /\ Len(b.res) = k
                              /\ \A j \in 1 .. k : b.res[j] = s[j]
      <4>1. o \in 0 .. l
        <5>1. Len(code) \in Nat
          BY <3>4, CodeIs
        <5> QED BY <3>5, <5>1
      <4>2. g[o] \in State
        BY <1>5, <3>3, <4>1
      <4>3. Read_(k)
        BY <2>1, <2>2
      <4> QED BY <3>3, <4>2, <4>3
    <3>7. \A i \in 1 .. l : g[i] = Read(e, i, g[i - 1])
      BY <1>5, <3>3
    <3>8. b.res \in Seq(Nat) /\ c \in Nat
      BY DEF State, Byte
    <3>9. PICK new \in Seq(Nat) : new = Append(b.res, c)
      <4>1. Append(b.res, c) \in Seq(Nat)
        BY <3>8, AppendProperties
      <4> QED BY <4>1, Zenon
    <3>10. Len(new) = k + 1 /\ \A j \in 1 .. k + 1 : new[j] = s[j]
      <4>1. PICK old \in Seq(Nat) : old = b.res
        BY <3>8
      <4>2. new = Append(old, c) /\ Len(old) = k /\ \A j \in 1 .. k : old[j] = s[j]
        BY <3>6, <3>9, <4>1
      <4>3. Len(new) = Len(old) + 1 /\ new[Len(old) + 1] = c
            /\ \A j \in 1 .. Len(old) : new[j] = old[j]
        <5>1. /\ Len(Append(old, c)) = Len(old) + 1 /\ Append(old, c)[Len(old) + 1] = c
              /\ \A j \in 1 .. Len(old) : Append(old, c)[j] = old[j]
          BY <3>8, AppendProperties
        <5> QED BY <4>2, <5>1
      <4> QED BY <3>2, <4>2, <4>3
    <3>11. g[m] = [res |-> new, digits |-> 0]
      <4>1. CASE code = <<c>> /\ c # Percent
        <5>1. m = o + 1 /\ o + 1 \in 1 .. l /\ (o + 1) - 1 = o /\ e[o + 1] = c
          BY <3>5, <4>1
        <5>2. g[o + 1] = Read(e, o + 1, b)
          BY <3>6, <3>7, <5>1
        <5> QED BY <3>6, <3>9, <4>1, <5>1, <5>2 DEF Read
      <4>2. CASE code = <<Percent, HexDigit(c \div 16), HexDigit(c % 16)>>
        <5>1. PICK p, q : p = HexDigit(c \div 16) /\ q = HexDigit(c % 16)
          OBVIOUS
        <5>2. code = <<Percent, p, q>>
          BY <4>2, <5>1
        <5>3. Len(code) = 3 /\ code[1] = Percent /\ code[2] = p /\ code[3] = q
          BY <5>2
        <5>4. m = o + 3 /\ e[o + 1] = Percent /\ e[o + 2] = p /\ e[o + 3] = q
          BY <3>5, <5>3
        <5>5. /\ o + 1 \in 1 .. l /\ o + 2 \in 1 .. l /\ o + 3 \in 1 .. l
              /\ (o + 1) - 1 = o /\ (o + 2) - 1 = o + 1 /\ (o + 3) - 1 = o + 2
              /\ (o + 1) + 1 = o + 2 /\ (o + 1) + 2 = o + 3
          BY <3>5, <5>4
        <5>6. HexByte(At(e, o + 2), At(e, o + 3)) = c
          BY <3>3, <5>1, <5>4, <5>5, HexBack DEF At
        <5>7. g[o + 1] = [res |-> new, digits |-> 2]
          <6>1. g[o + 1] = Read(e, o + 1, b)
            BY <3>6, <3>7, <5>5
          <6>2. Read(e, o + 1, b) = [res |-> Append(b.res, HexByte(At(e, o + 2), At(e, o + 3))), digits |-> 2]
            <7>1. b.digits = 0 /\ e[o + 1] = Percent
              BY <3>6, <5>4
            <7>2. PICK y : y = HexByte(At(e, o + 2), At(e, o + 3))
              OBVIOUS
            <7>3. y = HexByte(At(e, (o + 1) + 1), At(e, (o + 1) + 2))
              BY <5>5, <7>2
            <7>4. Read(e, o + 1, b) = [res |-> Append(b.res, y), digits |-> 2]
              <8>1. ~(b.digits > 0)
                BY <7>1
              <8> QED BY <7>1, <7>3, <8>1, Zenon DEF Read
            <7> QED BY <7>2, <7>4
          <6> QED BY <3>9, <5>6, <6>1, <6>2
        <5>8. g[o + 2] = [res |-> new, digits |-> 1]
          <6>1. g[o + 2] = Read(e, o + 2, [res |-> new, digits |-> 2])
            BY <3>7, <5>5, <5>7
          <6> QED BY <6>1 DEF Read
        <5>9. g[o + 3] = [res |-> new, digits |-> 0]
          <6>1. g[o + 3] = Read(e, o + 3, [res |-> new, digits |-> 1])
            BY <3>7, <5>5, <5>8
          <6> QED BY <6>1 DEF Read
        <5> QED BY <5>4, <5>9
      <4> QED BY <3>4, <4>1, <4>2, CodeIs
    <3> QED BY <3>3, <3>10, <3>11
  <2> QED BY <2>1, <2>2
<1>8. S = Nat
  <2>1. S \in SUBSET Nat
    OBVIOUS
  <2> HIDE DEF S
  <2> QED BY <1>6, <1>7, <2>1, SetInduction
<1>9. Read_(n)
  <2>1. n \in S
    <3> HIDE DEF S
    <3> QED BY <1>8
  <2> QED BY <2>1
<1>10. g[Len(e)].res \in Seq(Nat) /\ s \in Seq(Nat)
  <2>1. Len(e) \in 0 .. Len(e)
    BY <1>4 DEF Text
  <2>2. g[Len(e)] \in State
    BY <1>5, <2>1
  <2>3. g[Len(e)].res \in Seq(Nat)
    BY <2>2 DEF State
  <2>4. s \in Seq(Nat)
    <3>1. Byte \subseteq Nat
      BY DEF Byte
    <3> QED BY <3>1, SeqMonotonic DEF Text
  <2> QED BY <2>3, <2>4
<1>11. g[Len(e)].res = s
  <2>1. PICK d \in Seq(Nat) : d = g[Len(e)].res
    BY <1>10
  <2>2. Len(d) = n /\ \A j \in 1 .. n : d[j] = s[j]
    BY <1>3, <1>9, <2>1
  <2> QED BY <1>1, <1>10, <2>1, <2>2, SeqEqual
<1> QED BY <1>2, <1>5, <1>11

-----------------------------------------------------------------------------
(* Taking a form apart.                                                    *)

(* A part of a text is known by its length and its characters.             *)
LEMMA Slice ==
    ASSUME NEW s \in Text, NEW a \in Text, NEW n \in Nat, n = Len(a), NEW o \in Nat,
           o + n <= Len(s), \A j \in 1 .. n : s[o + j] = a[j]
    PROVE  SubSeq(s, o + 1, o + n) = a
<1>1. ASSUME NEW i \in o + 1 .. o + n PROVE s[i] \in Byte
  <2>1. i \in 1 .. Len(s)
    BY DEF Text
  <2> QED BY <2>1 DEF Text
<1>2. PICK l \in Nat, h \in Nat : l = o + 1 /\ h = o + n
  OBVIOUS
<1>3. PICK x : x = SubSeq(s, l, h)
  OBVIOUS
<1>4. x \in Seq(Byte) /\ Len(x) = (IF l <= h THEN h - l + 1 ELSE 0)
      /\ \A i \in 1 .. h - l + 1 : x[i] = s[l + i - 1]
  BY <1>1, <1>2, <1>3, SubSeqProperties
<1>5. h - l + 1 = n /\ (l <= h <=> n > 0) /\ \A j \in 1 .. n : l + j - 1 = o + j
  BY <1>2
<1>6. Len(x) = n /\ \A j \in 1 .. n : x[j] = a[j]
  <2>1. Len(x) = n
    BY <1>4, <1>5
  <2>2. ASSUME NEW j \in 1 .. n PROVE x[j] = a[j]
    <3>1. x[j] = s[l + j - 1]
      BY <1>4, <1>5
    <3>2. s[l + j - 1] = s[o + j]
      BY <1>5
    <3> QED BY <3>1, <3>2
  <2> QED BY <2>1, <2>2
<1>7. x = a
  BY <1>4, <1>6, SeqEqual DEF Text
<1> QED BY <1>2, <1>3, <1>7

(* The first of the characters looked for, and none of them.               *)
LEMMA FindAt ==
    ASSUME NEW s \in Text, NEW c, NEW i \in Nat, NEW k \in Nat, i <= k, k <= Len(s),
           s[k] = c, \A j \in i .. k - 1 : s[j] # c
    PROVE  Find(c, s, i) = k
<1>1. PICK n \in Nat : n = Len(s)
  BY DEF Text
<1> DEFINE First(j) == s[j] = c /\ \A m \in i .. j - 1 : s[m] # c
<1>2. k \in i .. n /\ First(k)
  BY <1>1
<1>3. PICK x \in i .. n : First(x) /\ x = CHOOSE j \in i .. n : First(j)
  <2> HIDE DEF First
  <2> QED BY <1>2
<1>4. x = k
  <2>1. x < k => x \in i .. k - 1
    OBVIOUS
  <2>2. k < x => k \in i .. x - 1
    BY <1>2
  <2> QED BY <1>2, <1>3, <2>1, <2>2
<1>5. Find(c, s, i) = CHOOSE j \in i .. n : First(j)
  BY <1>1, <1>2 DEF Find
<1> QED BY <1>3, <1>4, <1>5

(* Where the character is not, Find gives the place behind the end.        *)
LEMMA FindNothing ==
    ASSUME NEW s \in Text, NEW c, NEW i \in Nat, \A j \in i .. Len(s) : s[j] # c
    PROVE  Find(c, s, i) = Len(s) + 1
BY DEF Find

(* No separator is left in an encoded text.                                *)
LEMMA EncodedPlain ==
    ASSUME NEW s \in Text
    PROVE  /\ Encoded(s) \in Text
           /\ \A j \in 1 .. Len(Encoded(s)) : Encoded(s)[j] \notin {Amp, Equal, Question}
<1>1. PICK e \in Seq(Plain) : e = Encoded(s)
  BY EncodedAt
<1>2. e \in Text
  BY SeqMonotonic DEF Text, Plain
<1>3. ASSUME NEW j \in 1 .. Len(e) PROVE e[j] \notin {Amp, Equal, Question}
  <2>1. e[j] \in Plain
    OBVIOUS
  <2> QED BY <2>1 DEF Plain
<1> QED BY <1>1, <1>2, <1>3

(* A parameter of a form is not empty, has no '&', and is split where its  *)
(* key ends.                                                               *)
LEMMA PairIs ==
    ASSUME NEW p \in Text \X Text
    PROVE  /\ Pair(p) \in Text /\ Len(Pair(p)) > 0
           /\ \A j \in 1 .. Len(Pair(p)) : Pair(p)[j] # Amp
           /\ Param(Pair(p)) = <<Encoded(p[1]), Encoded(p[2])>>
<1>1. PICK a \in Text, b \in Text : a = Encoded(p[1]) /\ b = Encoded(p[2])
  BY EncodedPlain
<1>2. /\ \A j \in 1 .. Len(a) : a[j] \notin {Amp, Equal}
      /\ \A j \in 1 .. Len(b) : b[j] # Amp
  BY <1>1, EncodedPlain
<1>3. PICK m \in Nat, n \in Nat : m = Len(a) /\ n = Len(b)
  BY DEF Text
<1>4. PICK t \in Text : /\ t = a \o <<Equal>> \o b
                        /\ Len(t) = m + 1 + n
                        /\ \A j \in 1 .. m : t[j] = a[j]
                        /\ t[m + 1] = Equal
                        /\ \A j \in 1 .. n : t[m + 1 + j] = b[j]
  <2>1. <<Equal>> \in Text /\ Len(<<Equal>>) = 1 /\ <<Equal>>[1] = Equal
    BY DEF Text, Byte, Equal
  <2>2. PICK q \in Text : q = <<Equal>> /\ Len(q) = 1 /\ q[1] = Equal
    BY <2>1, Zenon
  <2>3. a \in Seq(Byte) /\ b \in Seq(Byte) /\ q \in Seq(Byte)
    BY DEF Text
  <2>4. PICK u \in Seq(Byte) : u = a \o q /\ Len(u) = m + 1
                               /\ \A j \in 1 .. m + 1 : u[j] = IF j <= m THEN a[j] ELSE q[j - m]
    <3>1. /\ a \o q \in Seq(Byte) /\ Len(a \o q) = Len(a) + Len(q)
          /\ \A j \in 1 .. Len(a) + Len(q) :
                (a \o q)[j] = IF j <= Len(a) THEN a[j] ELSE q[j - Len(a)]
      BY <2>3, ConcatProperties
    <3> QED BY <1>3, <2>2, <3>1
  <2>5. PICK t \in Seq(Byte) : t = u \o b /\ Len(t) = m + 1 + n
                               /\ \A j \in 1 .. m + 1 + n :
                                     t[j] = IF j <= m + 1 THEN u[j] ELSE b[j - (m + 1)]
    <3>1. /\ u \o b \in Seq(Byte) /\ Len(u \o b) = Len(u) + Len(b)
          /\ \A j \in 1 .. Len(u) + Len(b) :
                (u \o b)[j] = IF j <= Len(u) THEN u[j] ELSE b[j - Len(u)]
      BY <2>3, ConcatProperties
    <3>2. PICK t \in Seq(Byte) : t = u \o b
      BY <3>1
    <3>3. Len(u) = m + 1 /\ Len(b) = n /\ m + 1 + n = (m + 1) + n
      BY <1>3, <2>4
    <3>4. Len(t) = m + 1 + n
      BY <3>1, <3>2, <3>3
    <3>5. \A j \in 1 .. m + 1 + n : t[j] = IF j <= m + 1 THEN u[j] ELSE b[j - (m + 1)]
      BY <3>1, <3>2, <3>3
    <3> QED BY <3>2, <3>4, <3>5
  <2>6. t = a \o <<Equal>> \o b
    BY <2>2, <2>4, <2>5
  <2>7. \A j \in 1 .. m : t[j] = a[j]
    BY <2>4, <2>5
  <2>8. t[m + 1] = Equal
    <3>1. t[m + 1] = u[m + 1]
      BY <2>5
    <3>2. u[m + 1] = q[(m + 1) - m] /\ (m + 1) - m = 1
      BY <2>4
    <3> QED BY <2>2, <3>1, <3>2
  <2>9. ASSUME NEW j \in 1 .. n PROVE t[m + 1 + j] = b[j]
    <3>1. m + 1 + j \in 1 .. m + 1 + n /\ ~(m + 1 + j <= m + 1) /\ (m + 1 + j) - (m + 1) = j
      OBVIOUS
    <3> QED BY <2>5, <3>1
  <2>10. t \in Text
    BY DEF Text
  <2> QED BY <2>5, <2>6, <2>7, <2>8, <2>9, <2>10
<1>5. Pair(p) = t
  BY <1>1, <1>4 DEF Pair
<1>6. ASSUME NEW j \in 1 .. Len(t) PROVE t[j] # Amp
  <2>1. CASE j <= m
    <3>1. j \in 1 .. m
      BY <2>1
    <3> QED BY <1>2, <1>3, <1>4, <3>1
  <2>2. CASE j = m + 1
    BY <1>4, <2>2 DEF Equal, Amp
  <2>3. CASE j > m + 1
    <3>1. j - (m + 1) \in 1 .. n /\ m + 1 + (j - (m + 1)) = j
      BY <1>4, <2>3
    <3>2. t[m + 1 + (j - (m + 1))] = b[j - (m + 1)]
      BY <1>4, <3>1
    <3>3. b[j - (m + 1)] # Amp
      BY <1>2, <1>3, <3>1
    <3> QED BY <3>1, <3>2, <3>3
  <2> QED BY <2>1, <2>2, <2>3
<1>7. Find(Equal, t, 1) = m + 1
  <2>1. m + 1 \in Nat /\ 1 <= m + 1 /\ m + 1 <= Len(t) /\ (m + 1) - 1 = m
    BY <1>4
  <2>2. \A j \in 1 .. (m + 1) - 1 : t[j] # Equal
    BY <1>2, <1>3, <1>4, <2>1
  <2> QED BY <1>4, <2>1, <2>2, FindAt
<1>8. Before(t, m + 1) = a
  <2>1. PICK o \in Nat : o = 0
    OBVIOUS
  <2>2. o + m <= Len(t) /\ \A j \in 1 .. m : t[o + j] = a[j]
    BY <1>4, <2>1
  <2>3. SubSeq(t, o + 1, o + m) = a
    BY <1>3, <2>2, Slice
  <2>4. o + 1 = 1 /\ o + m = m /\ (m + 1) - 1 = m
    BY <2>1
  <2> QED BY <2>3, <2>4 DEF Before
<1>9. After(t, m + 1) = b
  <2>1. m + 1 \in Nat /\ (m + 1) + n <= Len(t) /\ m + 1 + n = (m + 1) + n
    BY <1>4
  <2>2. SubSeq(t, (m + 1) + 1, (m + 1) + n) = b
    <3>1. PICK o \in Nat : o = m + 1
      OBVIOUS
    <3>2. o + n <= Len(t) /\ \A j \in 1 .. n : t[o + j] = b[j]
      BY <1>4, <2>1, <3>1
    <3>3. SubSeq(t, o + 1, o + n) = b
      BY <1>3, <3>2, Slice
    <3> QED BY <3>1, <3>3
  <2> QED BY <1>4, <2>1, <2>2 DEF After
<1> QED BY <1>1, <1>4, <1>5, <1>6, <1>7, <1>8, <1>9 DEF Param

Form == Seq(Text \X Text)

(* The text of a form before a parameter, and with it. *)
Formed(x, form, i) ==
    IF i = 1 THEN Pair(form[1]) ELSE x \o <<Amp>> \o Pair(form[i])

Adds(x, t, p, i) ==
    \E o \in Nat :
        /\ o = (IF i = 1 THEN 0 ELSE Len(x) + 1)
        /\ Len(t) = o + Len(p)
        /\ \A j \in 1 .. Len(p) : t[o + j] = p[j]
        /\ i # 1 => t[o] = Amp

(* A parameter is added behind what is there, and behind a separator if it *)
(* is not the first.                                                       *)
LEMMA FormedIs ==
    ASSUME NEW form \in Form, NEW i \in 1 .. Len(form), NEW x \in Text, i = 1 => x = <<>>
    PROVE  /\ Formed(x, form, i) \in Text /\ StartsWith(x, Formed(x, form, i))
           /\ Adds(x, Formed(x, form, i), Pair(form[i]), i)
<1>1. form[i] \in Text \X Text
  BY DEF Form
<1>2. PICK p \in Text : p = Pair(form[i])
  BY <1>1, PairIs
<1>3. PICK m \in Nat, n \in Nat : m = Len(x) /\ n = Len(p)
  BY DEF Text
<1>4. CASE i = 1
  <2>1. Formed(x, form, i) = p
    BY <1>2, <1>4 DEF Formed
  <2>2. Len(x) = 0 /\ StartsWith(x, p)
    BY <1>4 DEF StartsWith, Text
  <2>3. 0 \in Nat /\ Len(p) = 0 + Len(p) /\ \A j \in 1 .. Len(p) : p[0 + j] = p[j]
    BY <1>3
  <2>4. PICK o \in Nat : o = 0
    OBVIOUS
  <2>5. Adds(x, p, p, i)
    BY <1>4, <2>3, <2>4 DEF Adds
  <2> QED BY <1>2, <2>1, <2>2, <2>5
<1>5. CASE i # 1
  <2>1. <<Amp>> \in Text /\ Len(<<Amp>>) = 1 /\ <<Amp>>[1] = Amp
    BY DEF Text, Byte, Amp
  <2>2. PICK q \in Text : q = <<Amp>> /\ Len(q) = 1 /\ q[1] = Amp
    BY <2>1, Zenon
  <2>3. x \in Seq(Byte) /\ p \in Seq(Byte) /\ q \in Seq(Byte)
    BY DEF Text
  <2>4. PICK u \in Seq(Byte) : u = x \o q /\ Len(u) = m + 1
                               /\ \A j \in 1 .. m + 1 : u[j] = IF j <= m THEN x[j] ELSE q[j - m]
    <3>1. /\ x \o q \in Seq(Byte) /\ Len(x \o q) = Len(x) + Len(q)
          /\ \A j \in 1 .. Len(x) + Len(q) :
                (x \o q)[j] = IF j <= Len(x) THEN x[j] ELSE q[j - Len(x)]
      BY <2>3, ConcatProperties
    <3> QED BY <1>3, <2>2, <3>1
  <2>5. PICK t \in Seq(Byte) : t = u \o p /\ Len(t) = (m + 1) + n
                               /\ \A j \in 1 .. (m + 1) + n :
                                     t[j] = IF j <= m + 1 THEN u[j] ELSE p[j - (m + 1)]
    <3>1. /\ u \o p \in Seq(Byte) /\ Len(u \o p) = Len(u) + Len(p)
          /\ \A j \in 1 .. Len(u) + Len(p) :
                (u \o p)[j] = IF j <= Len(u) THEN u[j] ELSE p[j - Len(u)]
      BY <2>3, ConcatProperties
    <3>2. PICK t \in Seq(Byte) : t = u \o p
      BY <3>1
    <3>3. Len(u) = m + 1 /\ Len(p) = n
      BY <1>3, <2>4
    <3>4. Len(t) = (m + 1) + n
      BY <3>1, <3>2, <3>3
    <3>5. \A j \in 1 .. (m + 1) + n : t[j] = IF j <= m + 1 THEN u[j] ELSE p[j - (m + 1)]
      BY <3>1, <3>2, <3>3
    <3> QED BY <3>2, <3>4, <3>5
  <2>6. Formed(x, form, i) = t
    BY <1>2, <1>5, <2>2, <2>4, <2>5 DEF Formed
  <2>7. \A j \in 1 .. m : t[j] = x[j]
    BY <2>4, <2>5
  <2>8. t[m + 1] = Amp
    <3>1. t[m + 1] = u[m + 1]
      BY <2>5
    <3>2. u[m + 1] = q[(m + 1) - m] /\ (m + 1) - m = 1
      BY <2>4
    <3> QED BY <2>2, <3>1, <3>2
  <2>9. ASSUME NEW j \in 1 .. n PROVE t[(m + 1) + j] = p[j]
    <3>1. (m + 1) + j \in 1 .. (m + 1) + n /\ ~((m + 1) + j <= m + 1)
          /\ ((m + 1) + j) - (m + 1) = j
      OBVIOUS
    <3> QED BY <2>5, <3>1
  <2>10. StartsWith(x, t)
    BY <1>3, <2>5, <2>7 DEF StartsWith
  <2>11. PICK o \in Nat : o = m + 1
    OBVIOUS
  <2>12. /\ o = (IF i = 1 THEN 0 ELSE Len(x) + 1) /\ Len(t) = o + Len(p)
         /\ \A j \in 1 .. Len(p) : t[o + j] = p[j]
         /\ i # 1 => t[o] = Amp
    BY <1>3, <1>5, <2>5, <2>8, <2>9, <2>11
  <2>13. t \in Text
    BY DEF Text
  <2>14. Adds(x, t, p, i)
    BY <2>12 DEF Adds
  <2> QED BY <1>2, <2>6, <2>10, <2>13, <2>14
<1> QED BY <1>4, <1>5

(* What the form's text is after each parameter. *)
Joins(g, form) ==
    g = [i \in 0 .. Len(form) |-> IF i = 0 THEN <<>> ELSE Formed(g[i - 1], form, i)]

(* The text of a form is that of its parameters one after the other.       *)
LEMMA FormTextIs ==
    ASSUME NEW form \in Form
    PROVE  \E g \in [0 .. Len(form) -> Text] :
              /\ g[0] = <<>> /\ \A i \in 1 .. Len(form) : g[i] = Formed(g[i - 1], form, i)
              /\ FormText(form) = g[Len(form)]
<1>1. PICK n \in Nat : n = Len(form)
  BY DEF Form
<1>2. ASSUME NEW i \in 1 .. n, NEW x \in Text PROVE Formed(x, form, i) \in Text
  <2>1. CASE i = 1
    <3>1. <<>> \in Text
      BY DEF Text
    <3>2. Formed(<<>>, form, i) \in Text
      <4>1. PICK y \in Text : y = <<>>
        BY <3>1, Zenon
      <4> QED BY <1>1, <4>1, FormedIs
    <3> QED BY <2>1, <3>2 DEF Formed
  <2>2. CASE i # 1
    BY <1>1, <2>2, FormedIs
  <2> QED BY <2>1, <2>2
<1>4. PICK F : Makes(F, n, Text) /\ \A i \in 1 .. n, x \in Text : F[<<i, x>>] = Formed(x, form, i)
  <2>1. PICK F : F = [p \in (1 .. n) \X Text |-> Formed(p[2], form, p[1])]
    OBVIOUS
  <2>2. \A i \in 1 .. n, x \in Text : F[<<i, x>>] = Formed(x, form, i)
    BY <2>1
  <2>3. F \in [(1 .. n) \X Text -> Text]
    BY <1>2, <2>1
  <2> QED BY <2>2, <2>3 DEF Makes
<1>5. PICK b \in Text : b = <<>>
  <2>1. <<>> \in Text
    BY DEF Text
  <2> QED BY <2>1, Zenon
<1>6. PICK f : Follows(f, F, n, Text, b)
  BY <1>4, Recursion
<1>7. /\ f \in [0 .. n -> Text] /\ f = [i \in 0 .. n |-> f[i]] /\ f[0] = <<>>
      /\ \A i \in 1 .. n : f[i] = Formed(f[i - 1], form, i)
  <2>1. f \in [0 .. n -> Text] /\ f[0] = b /\ \A i \in 1 .. n : f[i] = F[<<i, f[i - 1]>>]
    BY <1>6 DEF Follows
  <2>2. ASSUME NEW i \in 1 .. n PROVE f[i - 1] \in Text
    BY <2>1
  <2> QED BY <1>4, <1>5, <2>1, <2>2
<1>8. ASSUME NEW g PROVE Joins(g, form) <=>
         g = [i \in 0 .. n |-> IF i = 0 THEN <<>> ELSE Formed(g[i - 1], form, i)]
  BY <1>1 DEF Joins
<1>9. Joins(f, form)
  <2>1. ASSUME NEW i \in 0 .. n
        PROVE  f[i] = IF i = 0 THEN <<>> ELSE Formed(f[i - 1], form, i)
    <3>1. CASE i = 0
      BY <1>7, <3>1
    <3>2. CASE i # 0
      <4>1. i \in 1 .. n
        BY <3>2
      <4>2. f[i] = Formed(f[i - 1], form, i)
        BY <1>7, <4>1
      <4> QED BY <3>2, <4>2
    <3> QED BY <3>1, <3>2
  <2>2. f = [i \in 0 .. n |-> IF i = 0 THEN <<>> ELSE Formed(f[i - 1], form, i)]
    BY <1>7, <2>1
  <2> QED BY <1>8, <2>2
<1>10. PICK g : g = (CHOOSE h : Joins(h, form)) /\ FormText(form) = g[Len(form)]
  BY DEF FormText, Joins, Formed
<1>11. Joins(g, form)
  BY <1>9, <1>10
<1>12. g = [i \in 0 .. n |-> IF i = 0 THEN <<>> ELSE Formed(g[i - 1], form, i)]
  BY <1>8, <1>11
<1>13. f = g
  <2>1. g = [i \in 0 .. n |-> g[i]] /\ g[0] = <<>>
    BY <1>12
  <2>2. \A i \in 1 .. n : g[i] = Formed(g[i - 1], form, i)
    BY <1>12
  <2>3. \A i \in 1 .. n : f[i - 1] = g[i - 1] => f[i] = g[i]
    BY <1>7, <2>2
  <2>4. Agrees(f, g, n)
    BY <1>7, <2>1, <2>3 DEF Agrees
  <2> QED BY <2>4, Agreement
<1> QED BY <1>1, <1>7, <1>10, <1>13

(* Behind what separator, or the beginning, each parameter is found.       *)
Places(off, form, e) ==
    /\ off \in [0 .. Len(form) -> Nat] /\ off[0] = 0 /\ off[Len(form)] = Len(e) + 1
    /\ \A i \in 1 .. Len(form) :
          /\ off[i] = off[i - 1] + Len(Pair(form[i])) + 1 /\ off[i] <= Len(e) + 1
          /\ \A j \in 1 .. Len(Pair(form[i])) : e[off[i - 1] + j] = Pair(form[i])[j]
          /\ i # Len(form) => e[off[i]] = Amp

(* Each parameter of a form is found where the one before it ends.         *)
LEMMA FormTextAt ==
    ASSUME NEW form \in Form, form # <<>>
    PROVE  FormText(form) \in Text /\ \E off : Places(off, form, FormText(form))
<1>1. PICK n \in Nat : n = Len(form) /\ n > 0
  BY DEF Form
<1>2. PICK g \in [0 .. n -> Text] :
          /\ g[0] = <<>> /\ \A i \in 1 .. n : g[i] = Formed(g[i - 1], form, i)
          /\ FormText(form) = g[n]
  BY <1>1, FormTextIs
<1>3. PICK e \in Text : e = FormText(form) /\ e = g[n]
  BY <1>2
<1>4. ASSUME NEW i \in 1 .. n
      PROVE  /\ Len(g[i]) \in Nat /\ Len(g[i - 1]) \in Nat /\ Len(Pair(form[i])) \in Nat
             /\ StartsWith(g[i - 1], g[i]) /\ Adds(g[i - 1], g[i], Pair(form[i]), i)
  <2>1. PICK x \in Text, y \in Text : x = g[i - 1] /\ y = g[i]
    BY <1>2
  <2>2. i = 1 => x = <<>>
    BY <1>2, <2>1
  <2>3. form[i] \in Text \X Text
    BY <1>1 DEF Form
  <2>4. y = Formed(x, form, i)
    BY <1>2, <2>1
  <2>5. Len(x) \in Nat /\ Len(y) \in Nat
    BY DEF Text
  <2>6. Len(Pair(form[i])) \in Nat
    BY <2>3, PairIs DEF Text
  <2> QED BY <1>1, <2>1, <2>2, <2>4, <2>5, <2>6, FormedIs
<1>5. \A i \in 0 .. n : StartsWith(g[i], e)
  <2>1. g \in [0 .. n -> Seq(Byte)]
    BY <1>2 DEF Text
  <2>2. \A i \in 1 .. n : StartsWith(g[i - 1], g[i])
    BY <1>4
  <2> QED BY <1>3, <2>1, <2>2, Growing
<1>6. PICK off : off = [i \in 0 .. n |-> IF i = 0 THEN 0 ELSE Len(g[i]) + 1]
  OBVIOUS
<1>7. off \in [0 .. n -> Nat] /\ off[0] = 0 /\ off[n] = Len(e) + 1
  <2>1. ASSUME NEW i \in 0 .. n PROVE Len(g[i]) \in Nat
    BY <1>2 DEF Text
  <2> QED BY <1>1, <1>3, <1>6, <2>1
<1>8. ASSUME NEW i \in 1 .. n
      PROVE  /\ off[i] = off[i - 1] + Len(Pair(form[i])) + 1 /\ off[i] <= Len(e) + 1
             /\ \A j \in 1 .. Len(Pair(form[i])) : e[off[i - 1] + j] = Pair(form[i])[j]
             /\ i # n => e[off[i]] = Amp
  <2>1. PICK o \in Nat :
           /\ o = (IF i = 1 THEN 0 ELSE Len(g[i - 1]) + 1)
           /\ Len(g[i]) = o + Len(Pair(form[i]))
           /\ \A j \in 1 .. Len(Pair(form[i])) : g[i][o + j] = Pair(form[i])[j]
    BY <1>4 DEF Adds
  <2>2. off[i - 1] = o /\ off[i] = Len(g[i]) + 1
    <3>1. i - 1 \in 0 .. n /\ i \in 0 .. n /\ i # 0
      OBVIOUS
    <3>2. off[i] = Len(g[i]) + 1
      BY <1>6, <3>1
    <3>3. CASE i = 1
      <4>1. i - 1 = 0
        BY <3>3
      <4> QED BY <1>7, <2>1, <3>2, <3>3, <4>1
    <3>4. CASE i # 1
      <4>1. i - 1 # 0
        BY <3>4
      <4>2. off[i - 1] = Len(g[i - 1]) + 1
        BY <1>6, <3>1, <4>1
      <4> QED BY <2>1, <3>2, <3>4, <4>2
    <3> QED BY <3>3, <3>4
  <2>3. PICK l \in Nat, p \in Nat : l = Len(g[i]) /\ p = Len(Pair(form[i])) /\ l = o + p
    BY <1>4, <2>1
  <2>4. off[i] = off[i - 1] + Len(Pair(form[i])) + 1
    BY <2>2, <2>3
  <2>5. l <= Len(e) /\ \A j \in 1 .. l : e[j] = g[i][j]
    <3>1. StartsWith(g[i], e)
      BY <1>5
    <3> QED BY <2>3, <3>1 DEF StartsWith
  <2>6. off[i] <= Len(e) + 1
    <3>1. Len(e) \in Nat
      BY DEF Text
    <3> QED BY <2>2, <2>3, <2>5, <3>1
  <2>7. ASSUME NEW j \in 1 .. p PROVE e[off[i - 1] + j] = Pair(form[i])[j]
    <3>1. o + j \in 1 .. l
      BY <2>3
    <3>2. e[o + j] = g[i][o + j]
      BY <2>5, <3>1
    <3> QED BY <2>1, <2>2, <2>3, <3>2
  <2>8. ASSUME i # n PROVE e[off[i]] = Amp
    <3>1. i + 1 \in 1 .. n /\ i + 1 # 1 /\ (i + 1) - 1 = i
      BY <2>8
    <3>2. PICK h, q : h = g[i + 1] /\ q = Pair(form[i + 1])
      OBVIOUS
    <3>3. h[l + 1] = Amp /\ Len(h) >= l + 1
      <4>1. Adds(g[i], h, q, i + 1)
        <5>1. Adds(g[(i + 1) - 1], g[i + 1], Pair(form[i + 1]), i + 1)
          BY <1>4, <3>1, Zenon
        <5> QED BY <3>1, <3>2, <5>1
      <4>2. PICK z \in Nat : z = Len(g[i]) + 1 /\ Len(h) = z + Len(q) /\ h[z] = Amp
        BY <3>1, <4>1 DEF Adds
      <4>3. PICK y \in Nat : y = Len(q)
        BY <1>4, <3>1, <3>2
      <4>4. z = l + 1
        BY <2>3, <4>2
      <4>5. Len(h) = (l + 1) + y
        BY <4>2, <4>3, <4>4
      <4>6. (l + 1) + y >= l + 1
        OBVIOUS
      <4> QED BY <4>2, <4>4, <4>5, <4>6
    <3>4. StartsWith(g[i + 1], e) /\ Len(g[i + 1]) \in Nat
      BY <1>4, <1>5, <3>1
    <3>5. l + 1 \in 1 .. Len(h)
      BY <3>2, <3>3, <3>4
    <3> QED BY <2>2, <2>3, <3>2, <3>3, <3>4, <3>5 DEF StartsWith
  <2> QED BY <2>3, <2>4, <2>6, <2>7, <2>8
<1>9. Places(off, form, e)
  BY <1>1, <1>7, <1>8 DEF Places
<1> QED BY <1>3, <1>9

(* A turn of the loop takes the next parameter, and behind the last there  *)
(* is nothing more to take.                                                *)
LEMMA TurnIs ==
    ASSUME NEW form \in Form, NEW e \in Text, NEW off, Places(off, form, e),
           NEW k \in 1 .. Len(form), NEW params
    PROVE  Turn(e, [offset |-> off[k - 1] + 1, params |-> params]) =
           [offset |-> off[k] + 1,
            params |-> Append(params, <<Encoded(form[k][1]), Encoded(form[k][2])>>)]
<1>1. PICK n \in Nat, l \in Nat : n = Len(form) /\ l = Len(e)
  BY DEF Form, Text
<1>2. form[k] \in Text \X Text
  BY DEF Form
<1>3. PICK p \in Text : /\ p = Pair(form[k]) /\ Len(p) > 0
                        /\ \A j \in 1 .. Len(p) : p[j] # Amp
                        /\ Param(p) = <<Encoded(form[k][1]), Encoded(form[k][2])>>
  BY <1>2, PairIs
<1>4. PICK m \in Nat : m = Len(p) /\ m > 0
  BY <1>3 DEF Text
<1>5. PICK o \in Nat, x \in Nat : o = off[k - 1] /\ x = off[k]
  <2>1. off \in [0 .. n -> Nat] /\ k \in 0 .. n /\ k - 1 \in 0 .. n
    BY <1>1 DEF Places
  <2>2. off[k] \in Nat /\ off[k - 1] \in Nat
    BY <2>1
  <2> QED BY <2>2
<1>6. /\ x = o + m + 1 /\ x <= l + 1 /\ \A j \in 1 .. m : e[o + j] = p[j]
      /\ k # n => e[x] = Amp
      /\ k = n => x = l + 1
  BY <1>1, <1>3, <1>4, <1>5 DEF Places
<1>7. ASSUME NEW j \in o + 1 .. x - 1 PROVE e[j] # Amp
  <2>1. j - o \in 1 .. m /\ o + (j - o) = j
    BY <1>6
  <2>2. e[o + (j - o)] = p[j - o]
    BY <1>6, <2>1
  <2> QED BY <1>3, <1>4, <2>1, <2>2
<1>8. Find(Amp, e, o + 1) = x
  <2>1. PICK i \in Nat : i = o + 1
    OBVIOUS
  <2>2. i <= x
    BY <1>6, <2>1
  <2>3. CASE x <= l /\ e[x] = Amp
    BY <1>1, <1>7, <2>1, <2>2, <2>3, FindAt
  <2>4. CASE x = l + 1
    <3>1. x - 1 = l
      BY <2>4
    <3>2. \A j \in i .. Len(e) : e[j] # Amp
      BY <1>1, <1>7, <2>1, <3>1
    <3>3. Find(Amp, e, i) = Len(e) + 1
      BY <3>2, FindNothing
    <3> QED BY <1>1, <2>1, <2>4, <3>3
  <2>5. (x <= l /\ e[x] = Amp) \/ x = l + 1
    <3>1. CASE k = n
      BY <1>6, <3>1
    <3>2. CASE k # n
      BY <1>6, <3>2
    <3> QED BY <3>1, <3>2
  <2> QED BY <2>3, <2>4, <2>5
<1>9. SubSeq(e, o + 1, x - 1) = p
  <2>1. o + m <= Len(e) /\ x - 1 = o + m
    BY <1>1, <1>6
  <2>2. SubSeq(e, o + 1, o + m) = p
    BY <1>4, <1>6, <2>1, Slice
  <2> QED BY <2>1, <2>2
<1>10. p # <<>>
  BY <1>3
<1> QED BY <1>3, <1>5, <1>8, <1>9, <1>10 DEF Turn

(* A turn past the end of the form changes nothing.                        *)
LEMMA TurnPastEnd ==
    ASSUME NEW e \in Text, NEW params
    PROVE  Turn(e, [offset |-> Len(e) + 2, params |-> params]) =
           [offset |-> Len(e) + 2, params |-> params]
<1>1. PICK l \in Nat : l = Len(e)
  BY DEF Text
<1>2. Find(Amp, e, l + 2) = l + 1
  <2>1. PICK i \in Nat : i = l + 2
    OBVIOUS
  <2>2. Find(Amp, e, i) = Len(e) + 1
    BY <1>1, <2>1, FindNothing
  <2> QED BY <1>1, <2>1, <2>2
<1>3. SubSeq(e, l + 2, (l + 1) - 1) = <<>>
  <2>1. PICK a \in Int, b \in Int : a = l + 2 /\ b = (l + 1) - 1 /\ b < a
    OBVIOUS
  <2> QED BY <2>1, SubSeqEmpty
<1>4. (l + 1) + 1 = l + 2
  OBVIOUS
<1> QED BY <1>1, <1>2, <1>3, <1>4 DEF Turn

(* What the loop of parse_formdata has after each turn. *)
Turns(g, e) ==
    g = [k \in 0 .. Len(e) + 1 |->
            IF k = 0 THEN [offset |-> 1, params |-> <<>>] ELSE Turn(e, g[k - 1])]

(* parse_formdata and the constructor of uri find the parameters of a form:*)
(* a turn of the loop for each, and turns that find nothing behind them.   *)
LEMMA ParamsOfForm ==
    ASSUME NEW form \in Form, form # <<>>
    PROVE  Params(FormText(form)) =
           [i \in 1 .. Len(form) |-> <<Encoded(form[i][1]), Encoded(form[i][2])>>]
<1>1. PICK n \in Nat : n = Len(form) /\ n > 0
  BY DEF Form
<1>2. PICK e \in Text : e = FormText(form) /\ \E o : Places(o, form, e)
  BY FormTextAt
<1>2a. PICK off : Places(off, form, e)
  BY <1>2
<1>3. PICK l \in Nat : l = Len(e)
  BY DEF Text
<1>4. PICK params : params = [i \in 1 .. n |-> <<Encoded(form[i][1]), Encoded(form[i][2])>>]
  OBVIOUS
<1>5. /\ params \in Seq(Text \X Text) /\ Len(params) = n
      /\ \A i \in 1 .. n : params[i] = <<Encoded(form[i][1]), Encoded(form[i][2])>>
  <2>1. ASSUME NEW i \in 1 .. n
        PROVE  <<Encoded(form[i][1]), Encoded(form[i][2])>> \in Text \X Text
    <3>1. form[i] \in Text \X Text
      BY <1>1 DEF Form
    <3> QED BY <3>1, EncodedPlain
  <2>2. params \in [1 .. n -> Text \X Text]
    BY <1>4, <2>1
  <2>3. params \in Seq(Text \X Text)
    BY <2>2, SeqDef
  <2>4. Len(params) = n
    BY <2>2, <2>3
  <2> QED BY <1>4, <2>3, <2>4
<1>6. /\ off \in [0 .. n -> Nat] /\ off[0] = 0 /\ off[n] = l + 1
      /\ \A i \in 1 .. n : off[i] >= off[i - 1] + 1
  <2>1. off \in [0 .. n -> Nat] /\ off[0] = 0 /\ off[n] = l + 1
    BY <1>1, <1>3, <1>2a DEF Places
  <2>2. ASSUME NEW i \in 1 .. n PROVE off[i] >= off[i - 1] + 1
    <3>1. form[i] \in Text \X Text
      BY <1>1 DEF Form
    <3>2. PICK p \in Nat : p = Len(Pair(form[i]))
      BY <3>1, PairIs DEF Text
    <3>3. off[i] = off[i - 1] + p + 1
      BY <1>1, <1>2a, <3>2 DEF Places
    <3>4. off[i - 1] \in Nat
      BY <2>1
    <3> QED BY <3>3, <3>4
  <2> QED BY <2>1, <2>2
<1>7. n <= l + 1
  <2> DEFINE S == {k \in Nat : k <= n => off[k] >= k}
  <2>1. 0 \in S
    BY <1>6
  <2>2. ASSUME NEW k \in S PROVE k + 1 \in S
    <3>1. k \in Nat /\ k + 1 \in Nat
      OBVIOUS
    <3>2. ASSUME k + 1 <= n PROVE off[k + 1] >= k + 1
      <4>1. k + 1 \in 1 .. n /\ (k + 1) - 1 = k /\ k \in 0 .. n /\ k + 1 \in 0 .. n
        BY <3>1, <3>2
      <4>2. PICK x \in Nat, y \in Nat : x = off[k] /\ y = off[k + 1]
        BY <1>6, <4>1
      <4>3. x >= k
        BY <3>1, <3>2, <4>2
      <4>4. y >= x + 1
        <5>1. off[k + 1] >= off[(k + 1) - 1] + 1
          BY <1>6, <4>1
        <5> QED BY <4>1, <4>2, <5>1
      <4> QED BY <3>1, <4>2, <4>3, <4>4
    <3> QED BY <3>1, <3>2
  <2>3. S = Nat
    <3>1. S \in SUBSET Nat
      OBVIOUS
    <3> HIDE DEF S
    <3> QED BY <2>1, <2>2, <3>1, SetInduction
  <2>4. n \in S
    <3> HIDE DEF S
    <3> QED BY <2>3
  <2> QED BY <1>6, <2>4
<1>8. PICK f : f = [k \in 0 .. l + 1 |->
                       IF k <= n THEN [offset |-> off[k] + 1, params |-> SubSeq(params, 1, k)]
                       ELSE [offset |-> l + 2, params |-> params]]
  OBVIOUS
<1>9. SubSeq(params, 1, n) = params
  BY <1>5, SubSeqFull
<1>10. ASSUME NEW g PROVE Turns(g, e) <=>
          g = [k \in 0 .. l + 1 |->
                  IF k = 0 THEN [offset |-> 1, params |-> <<>>] ELSE Turn(e, g[k - 1])]
  BY <1>3 DEF Turns
<1>11. Turns(f, e)
  <2>1. ASSUME NEW k \in 0 .. l + 1
        PROVE  f[k] = IF k = 0 THEN [offset |-> 1, params |-> <<>>] ELSE Turn(e, f[k - 1])
    <3>1. CASE k = 0
      <4>1. SubSeq(params, 1, 0) = <<>>
        BY SubSeqEmpty
      <4>2. off[0] + 1 = 1
        BY <1>6
      <4>3. f[0] = [offset |-> off[0] + 1, params |-> SubSeq(params, 1, 0)]
        BY <1>8
      <4> QED BY <3>1, <4>1, <4>2, <4>3
    <3>2. CASE k \in 1 .. n
      <4>1. k - 1 \in 0 .. l + 1 /\ k - 1 <= n /\ k <= n /\ k # 0
        BY <3>2
      <4>2. PICK before, after : before = SubSeq(params, 1, k - 1) /\ after = SubSeq(params, 1, k)
        OBVIOUS
      <4>3. f[k - 1] = [offset |-> off[k - 1] + 1, params |-> before]
        BY <1>8, <4>1, <4>2
      <4>4. f[k] = [offset |-> off[k] + 1, params |-> after]
        BY <1>8, <4>1, <4>2
      <4>5. Turn(e, f[k - 1]) = [offset |-> off[k] + 1, params |-> Append(before, params[k])]
        <5>1. k \in 1 .. Len(form)
          BY <1>1, <3>2
        <5>2. Turn(e, [offset |-> off[k - 1] + 1, params |-> before]) =
                 [offset |-> off[k] + 1,
                  params |-> Append(before, <<Encoded(form[k][1]), Encoded(form[k][2])>>)]
          BY <1>2a, <5>1, TurnIs
        <5>3. params[k] = <<Encoded(form[k][1]), Encoded(form[k][2])>>
          BY <1>5, <3>2
        <5> QED BY <4>3, <5>2, <5>3
      <4>6. after = Append(before, params[k])
        <5>1. PICK T : T = Text \X Text
          OBVIOUS
        <5>2. params \in Seq(T) /\ 1 \in 1 .. Len(params) /\ k \in 1 .. Len(params)
          BY <1>1, <1>5, <3>2, <5>1
        <5>3. after = before \o <<params[k]>>
          BY <4>2, <5>2, SubSeqRecursiveSecond
        <5>4. before \in Seq(T) /\ params[k] \in T
          <6>1. params[k] \in T
            BY <5>2
          <6>2. \A i \in 1 .. k - 1 : params[i] \in T
            BY <5>2
          <6>3. before \in Seq(T)
            <7>1. PICK a \in Int, b \in Int : a = 1 /\ b = k - 1
              OBVIOUS
            <7>2. SubSeq(params, a, b) \in Seq(T)
              BY <6>2, <7>1, SubSeqProperties
            <7> QED BY <4>2, <7>1, <7>2
          <6> QED BY <6>1, <6>3
        <5>5. Append(before, params[k]) = before \o <<params[k]>>
          BY <5>4, AppendIsConcat
        <5> QED BY <5>3, <5>5
      <4> QED BY <4>1, <4>4, <4>5, <4>6
    <3>3. CASE k > n
      <4>1. k - 1 \in 0 .. l + 1 /\ k # 0 /\ ~(k <= n) /\ (k - 1 <= n => k - 1 = n)
        BY <3>3
      <4>2. f[k] = [offset |-> l + 2, params |-> params]
        BY <1>8, <4>1
      <4>3. f[k - 1] = [offset |-> l + 2, params |-> params]
        <5>1. CASE k - 1 <= n
          <6>1. f[k - 1] = [offset |-> off[n] + 1, params |-> SubSeq(params, 1, n)]
            BY <1>8, <4>1, <5>1
          <6>2. off[n] + 1 = l + 2
            BY <1>6
          <6> QED BY <1>9, <6>1, <6>2
        <5>2. CASE ~(k - 1 <= n)
          BY <1>8, <4>1, <5>2
        <5> QED BY <5>1, <5>2
      <4>4. Turn(e, f[k - 1]) = [offset |-> l + 2, params |-> params]
        BY <1>3, <4>3, TurnPastEnd
      <4> QED BY <4>1, <4>2, <4>4
    <3> QED BY <3>1, <3>2, <3>3
  <2>2. f = [k \in 0 .. l + 1 |-> f[k]]
    BY <1>8
  <2>3. f = [k \in 0 .. l + 1 |->
                IF k = 0 THEN [offset |-> 1, params |-> <<>>] ELSE Turn(e, f[k - 1])]
    BY <2>1, <2>2
  <2> QED BY <1>10, <2>3
<1>12. PICK g : g = (CHOOSE h : Turns(h, e)) /\ Params(e) = g[Len(e) + 1].params
  BY DEF Params, Turns
<1>13. Turns(g, e)
  BY <1>11, <1>12
<1>14. f = g
  <2>1. g = [k \in 0 .. l + 1 |->
                IF k = 0 THEN [offset |-> 1, params |-> <<>>] ELSE Turn(e, g[k - 1])]
    BY <1>10, <1>13
  <2>2. f = [k \in 0 .. l + 1 |->
                IF k = 0 THEN [offset |-> 1, params |-> <<>>] ELSE Turn(e, f[k - 1])]
    BY <1>10, <1>11
  <2>3. f = [k \in 0 .. l + 1 |-> f[k]] /\ g = [k \in 0 .. l + 1 |-> g[k]] /\ f[0] = g[0]
    BY <2>1, <2>2
  <2>4. ASSUME NEW k \in 1 .. l + 1, f[k - 1] = g[k - 1] PROVE f[k] = g[k]
    <3>1. k \in 0 .. l + 1 /\ k # 0
      OBVIOUS
    <3>2. f[k] = Turn(e, f[k - 1]) /\ g[k] = Turn(e, g[k - 1])
      BY <2>1, <2>2, <3>1
    <3> QED BY <2>4, <3>2
  <2>5. Agrees(f, g, l + 1)
    BY <2>3, <2>4 DEF Agrees
  <2> QED BY <2>5, Agreement
<1>15. f[l + 1].params = params
  <2>1. CASE l + 1 <= n
    <3>1. l + 1 = n
      BY <1>7, <2>1
    <3>2. f[l + 1].params = SubSeq(params, 1, l + 1)
      BY <1>8, <2>1
    <3> QED BY <1>9, <3>1, <3>2
  <2>2. CASE ~(l + 1 <= n)
    BY <1>8, <2>2
  <2> QED BY <2>1, <2>2
<1> QED BY <1>1, <1>2, <1>3, <1>4, <1>12, <1>14, <1>15

(* And parse_formdata decodes what it finds.                               *)
LEMMA FormDataOfForm ==
    ASSUME NEW form \in Form, form # <<>>
    PROVE  FormData(FormText(form)) = form
<1>1. PICK n \in Nat : n = Len(form)
  BY DEF Form
<1>2. PICK params : params = Params(FormText(form))
  OBVIOUS
<1>3. params = [i \in 1 .. n |-> <<Encoded(form[i][1]), Encoded(form[i][2])>>]
  BY <1>1, <1>2, ParamsOfForm
<1>4. Len(params) = n
  BY <1>3
<1>5. FormData(FormText(form)) =
         [i \in 1 .. n |-> <<Decoded(params[i][1]), Decoded(params[i][2])>>]
  BY <1>2, <1>4 DEF FormData
<1>6. ASSUME NEW i \in 1 .. n
      PROVE  <<Decoded(params[i][1]), Decoded(params[i][2])>> = form[i]
  <2>1. form[i] \in Text \X Text
    BY <1>1 DEF Form
  <2>2. PICK a \in Text, b \in Text : form[i] = <<a, b>>
    BY <2>1
  <2>3. params[i] = <<Encoded(a), Encoded(b)>>
    BY <1>3, <2>2
  <2>4. Decoded(Encoded(a)) = a /\ Decoded(Encoded(b)) = b
    BY DecodedEncoded
  <2> QED BY <2>2, <2>3, <2>4
<1>7. form = [i \in 1 .. n |-> form[i]]
  BY <1>1 DEF Form
<1> QED BY <1>5, <1>6, <1>7

(* A query is what follows the first question mark. *)
LEMMA QueryOfForm ==
    ASSUME NEW r \in Text, \A j \in 1 .. Len(r) : r[j] # Question,
           NEW form \in Form, form # <<>>
    PROVE  Query(r \o <<Question>> \o FormText(form)) = Params(FormText(form))
<1>1. PICK b \in Text : b = FormText(form)
  BY FormTextAt
<1>2. PICK m \in Nat, n \in Nat : m = Len(r) /\ n = Len(b)
  BY DEF Text
<1>3. <<Question>> \in Text /\ Len(<<Question>>) = 1 /\ <<Question>>[1] = Question
  BY DEF Text, Byte, Question
<1>4. PICK q \in Text : q = <<Question>> /\ Len(q) = 1 /\ q[1] = Question
  BY <1>3, Zenon
<1>5. r \in Seq(Byte) /\ b \in Seq(Byte) /\ q \in Seq(Byte)
  BY DEF Text
<1>6. PICK u \in Seq(Byte) : u = r \o q /\ Len(u) = m + 1
                             /\ \A j \in 1 .. m + 1 : u[j] = IF j <= m THEN r[j] ELSE q[j - m]
  <2>1. /\ r \o q \in Seq(Byte) /\ Len(r \o q) = Len(r) + Len(q)
        /\ \A j \in 1 .. Len(r) + Len(q) : (r \o q)[j] = IF j <= Len(r) THEN r[j] ELSE q[j - Len(r)]
    BY <1>5, ConcatProperties
  <2> QED BY <1>2, <1>4, <2>1
<1>7. PICK t \in Seq(Byte) : t = u \o b /\ Len(t) = (m + 1) + n
                             /\ \A j \in 1 .. (m + 1) + n :
                                   t[j] = IF j <= m + 1 THEN u[j] ELSE b[j - (m + 1)]
  <2>1. /\ u \o b \in Seq(Byte) /\ Len(u \o b) = Len(u) + Len(b)
        /\ \A j \in 1 .. Len(u) + Len(b) : (u \o b)[j] = IF j <= Len(u) THEN u[j] ELSE b[j - Len(u)]
    BY <1>5, ConcatProperties
  <2>2. PICK t \in Seq(Byte) : t = u \o b
    BY <2>1
  <2>3. Len(u) = m + 1 /\ Len(b) = n
    BY <1>2, <1>6
  <2>4. Len(t) = (m + 1) + n
    BY <2>1, <2>2, <2>3
  <2>5. \A j \in 1 .. (m + 1) + n : t[j] = IF j <= m + 1 THEN u[j] ELSE b[j - (m + 1)]
    BY <2>1, <2>2, <2>3
  <2> QED BY <2>2, <2>4, <2>5
<1>8. t \in Text
  BY DEF Text
<1>9. t[m + 1] = Question
  <2>1. t[m + 1] = u[m + 1]
    BY <1>7
  <2>2. u[m + 1] = q[(m + 1) - m] /\ (m + 1) - m = 1
    BY <1>6
  <2> QED BY <1>4, <2>1, <2>2
<1>10. \A j \in 1 .. m : t[j] # Question
  BY <1>2, <1>6, <1>7
<1>11. Find(Question, t, 1) = m + 1
  <2>1. m + 1 \in Nat /\ 1 <= m + 1 /\ m + 1 <= Len(t) /\ (m + 1) - 1 = m
    BY <1>7
  <2> QED BY <1>8, <1>9, <1>10, <2>1, FindAt
<1>12. After(t, m + 1) = b
  <2>1. PICK o \in Nat : o = m + 1
    OBVIOUS
  <2>2. ASSUME NEW j \in 1 .. n PROVE t[o + j] = b[j]
    <3>1. (m + 1) + j \in 1 .. (m + 1) + n /\ ~((m + 1) + j <= m + 1)
          /\ ((m + 1) + j) - (m + 1) = j
      OBVIOUS
    <3> QED BY <1>7, <2>1, <3>1
  <2>3. o + n <= Len(t)
    BY <1>7, <2>1
  <2>4. SubSeq(t, o + 1, o + n) = b
    BY <1>2, <1>8, <2>2, <2>3, Slice
  <2> QED BY <1>7, <2>1, <2>4 DEF After
<1>13. t = r \o <<Question>> \o FormText(form)
  BY <1>1, <1>4, <1>6, <1>7
<1> QED BY <1>1, <1>11, <1>12, <1>13 DEF Query

(* The forms are of characters, and a query is put behind a resource that  *)
(* has none.                                                               *)
FormsAreTexts ==
    \A r \in Requests :
        r.form # <<>> =>
            /\ r.form \in Form /\ r.resource \in Text
            /\ \A j \in 1 .. Len(r.resource) : r.resource[j] # Question

Asked == request.form = <<>> \/ request \in Requests

(* What a client puts together with url_encode is what parse_formdata      *)
(* gives to the handler, whatever the characters: a separator that is part *)
(* of a key or a value does not separate, and no character is changed.     *)
THEOREM FormsComeBack == ASSUME FormsAreTexts PROVE Spec => []FormSurvives
<1>1. Init => Asked
  BY DEF Init, Asked
<1>2. Asked /\ [Next]_vars => Asked'
  <2> SUFFICES ASSUME Asked, [Next]_vars PROVE request' = request \/ request'.form = <<>>
      BY DEF Asked
  <2>1. CASE Follow
    BY <2>1 DEF Follow
  <2>2. CASE InvalidUri \/ RouteLiteral \/ NoRoute \/ CheckExists
    BY <2>2 DEF InvalidUri, RouteLiteral, NoRoute, CheckExists, Ends, Goes
  <2>4. CASE Canonical \/ Status \/ LastWriteTime \/ FileSize \/ Decide
    BY <2>4 DEF Canonical, Status, LastWriteTime, FileSize, Decide, Ends, Goes
  <2>7. CASE Open \/ Send \/ List \/ Change
    BY <2>7 DEF Open, Send, List, Change, Ends
  <2>3. CASE UNCHANGED vars
    BY <2>3 DEF vars
  <2> QED BY <2>1, <2>2, <2>3, <2>4, <2>7 DEF Next
<1>3. Asked => FormSurvives
  <2> SUFFICES ASSUME Asked, request.form # <<>> PROVE FormSurvives
      BY DEF FormSurvives
  <2>1. PICK form, r : form = request.form /\ r = request.resource
    OBVIOUS
  <2>2. form \in Form /\ r \in Text /\ \A j \in 1 .. Len(r) : r[j] # Question
    BY <2>1 DEF Asked, FormsAreTexts
  <2>3. FormData(FormText(form)) = form
    BY <2>1, <2>2, FormDataOfForm
  <2>4. Query(r \o <<Question>> \o FormText(form)) =
           [i \in 1 .. Len(form) |-> <<Encoded(form[i][1]), Encoded(form[i][2])>>]
    BY <2>1, <2>2, ParamsOfForm, QueryOfForm
  <2>5. DOMAIN form = 1 .. Len(form)
    BY <2>2 DEF Form
  <2> QED BY <2>1, <2>3, <2>4, <2>5 DEF FormSurvives
<1> QED BY <1>1, <1>2, <1>3, PTL DEF Spec


-----------------------------------------------------------------------------
(* Sequences put together.                                                 *)

Flattens(f, ss) ==
    f = [i \in 1 .. Len(ss) |-> IF i = 1 THEN ss[i] ELSE f[i - 1] \o ss[i]]

(* FlattenSeq is its loop. *)
LEMMA FlattenLoop ==
    ASSUME NEW T, NEW ss \in Seq(Seq(T))
    PROVE  \E g \in [0 .. Len(ss) -> Seq(T)] :
              /\ g[0] = <<>> /\ \A i \in 1 .. Len(ss) : g[i] = g[i - 1] \o ss[i]
              /\ FlattenSeq(ss) = g[Len(ss)]
<1>1. PICK n \in Nat : n = Len(ss) /\ \A i \in 1 .. n : ss[i] \in Seq(T)
  OBVIOUS
<1> DEFINE U == Seq(T)
<1>2. PICK b \in U : b = <<>>
  <2>1. <<>> \in U
    OBVIOUS
  <2> HIDE DEF U
  <2> QED BY <2>1, Zenon
<1>3. PICK F : Makes(F, n, U) /\ \A i \in 1 .. n, x \in U : F[<<i, x>>] = x \o ss[i]
  <2>1. PICK F : F = [p \in (1 .. n) \X U |-> p[2] \o ss[p[1]]]
    OBVIOUS
  <2>2. \A i \in 1 .. n, x \in U : F[<<i, x>>] = x \o ss[i]
    BY <2>1
  <2>3. F \in [(1 .. n) \X U -> U]
    BY <1>1, <2>1
  <2> QED BY <2>2, <2>3, Zenon DEF Makes
<1>4. ASSUME NEW x \in U PROVE b \o x = x
  BY <1>2
<1> HIDE DEF U
<1>5. PICK g : Follows(g, F, n, U, b)
  BY <1>3, Recursion
<1>6. /\ g \in [0 .. n -> U] /\ g[0] = b
      /\ \A i \in 1 .. n : g[i] = g[i - 1] \o ss[i]
  <2>1. g \in [0 .. n -> U] /\ g[0] = b /\ \A i \in 1 .. n : g[i] = F[<<i, g[i - 1]>>]
    BY <1>5 DEF Follows
  <2>2. ASSUME NEW i \in 1 .. n PROVE g[i - 1] \in U
    BY <2>1
  <2> QED BY <1>3, <2>1, <2>2
<1>7. CASE n = 0
  <2>1. ss = b
    BY <1>1, <1>2, <1>7, EmptySeq
  <2>2. FlattenSeq(ss) = ss
    BY <1>1, <1>7 DEF FlattenSeq
  <2> QED BY <1>1, <1>2, <1>6, <1>7, <2>1, <2>2 DEF U
<1>8. CASE n # 0
  <2>1. PICK f : f = [i \in 1 .. n |-> g[i]]
    OBVIOUS
  <2>2. ASSUME NEW i \in 1 .. n PROVE f[i] = IF i = 1 THEN ss[i] ELSE f[i - 1] \o ss[i]
    <3>1. CASE i = 1
      <4>0. i - 1 = 0
        BY <3>1
      <4>1. g[i] = g[i - 1] \o ss[i]
        BY <1>6
      <4>2. ss[i] \in U
        BY <1>1 DEF U
      <4> QED BY <1>4, <1>6, <2>1, <3>1, <4>0, <4>1, <4>2
    <3>2. CASE i # 1
      <4>1. i - 1 \in 1 .. n
        BY <3>2
      <4> QED BY <1>6, <2>1, <3>2, <4>1
    <3> QED BY <3>1, <3>2
  <2>3. Flattens(f, ss)
    <3>1. f = [i \in 1 .. n |-> IF i = 1 THEN ss[i] ELSE f[i - 1] \o ss[i]]
      BY <2>1, <2>2
    <3> QED BY <1>1, <3>1 DEF Flattens
  <2>4. PICK h : h = (CHOOSE k : Flattens(k, ss)) /\ FlattenSeq(ss) = h[Len(ss)]
    BY <1>1, <1>8 DEF FlattenSeq, Flattens
  <2>5. h = [i \in 1 .. n |-> IF i = 1 THEN ss[i] ELSE h[i - 1] \o ss[i]]
    <3>1. Flattens(h, ss)
      BY <2>3, <2>4
    <3> QED BY <1>1, <3>1 DEF Flattens
  <2>6. PICK e : e = [i \in 0 .. n |-> IF i = 0 THEN b ELSE h[i]]
    OBVIOUS
  <2>7. ASSUME NEW i \in 1 .. n, e[i - 1] \in U PROVE e[i] = F[<<i, e[i - 1]>>]
    <3>1. CASE i = 1
      <4>1. e[i] = ss[i] /\ e[i - 1] = b /\ ss[i] \in U
        BY <1>1, <2>5, <2>6, <3>1 DEF U
      <4> QED BY <1>3, <1>4, <4>1
    <3>2. CASE i # 1
      <4>1. i - 1 \in 1 .. n /\ e[i] = h[i] /\ e[i - 1] = h[i - 1]
        BY <2>6, <3>2
      <4>2. h[i] = h[i - 1] \o ss[i]
        BY <2>5, <3>2
      <4> QED BY <1>3, <2>7, <4>1, <4>2
    <3> QED BY <3>1, <3>2
  <2>8. Follows(e, F, n, U, b)
    <3>1. e[0] = b /\ e = [i \in 0 .. n |-> e[i]]
      BY <2>6
    <3> QED BY <1>3, <2>7, <3>1, Obeying
  <2>9. /\ e \in [0 .. n -> U] /\ \A i \in 1 .. n : e[i] = F[<<i, e[i - 1]>>]
    BY <2>8 DEF Follows
  <2>10. \A i \in 1 .. n : e[i] = e[i - 1] \o ss[i]
    <3>1. ASSUME NEW i \in 1 .. n PROVE e[i - 1] \in U
      BY <2>9
    <3> QED BY <1>3, <2>9, <3>1
  <2>11. e[n] = h[n] /\ e[0] = b
    BY <1>8, <2>6
  <2> QED BY <1>1, <1>2, <2>4, <2>9, <2>10, <2>11 DEF U
<1> QED BY <1>7, <1>8

(* Two texts put together.                                                 *)
LEMMA Glued ==
    ASSUME NEW s \in Text, NEW t \in Text
    PROVE  /\ s \o t \in Text /\ Len(s \o t) = Len(s) + Len(t) /\ Len(s) \in Nat /\ Len(t) \in Nat
           /\ \A i \in 1 .. Len(s) + Len(t) :
                 (s \o t)[i] = IF i <= Len(s) THEN s[i] ELSE t[i - Len(s)]
BY ConcatProperties DEF Text

LEMMA GluedInTurn ==
    ASSUME NEW s \in Text, NEW t \in Text, NEW u \in Text
    PROVE  (s \o t) \o u = s \o (t \o u)
<1>1. s \in Seq(Byte) /\ t \in Seq(Byte) /\ u \in Seq(Byte)
  BY DEF Text
<1> QED BY <1>1, ConcatAssociative

(* A sequence without its last member, and that member.                    *)
LEMMA LastOff ==
    ASSUME NEW T, NEW s \in Seq(T), NEW m \in Nat, Len(s) = m + 1
    PROVE  /\ SubSeq(s, 1, m) \in Seq(T) /\ Len(SubSeq(s, 1, m)) = m /\ s[m + 1] \in T
           /\ Append(SubSeq(s, 1, m), s[m + 1]) = s
<1>1. PICK f, x : f = SubSeq(s, 1, m) /\ x = s[m + 1]
  OBVIOUS
<1>2. f \in Seq(T) /\ Len(f) = m /\ x \in T /\ \A i \in 1 .. m : f[i] = s[i]
  BY <1>1
<1>3. PICK a : a = Append(f, x)
  OBVIOUS
<1>4. a \in Seq(T) /\ Len(a) = m + 1 /\ a[m + 1] = x /\ \A i \in 1 .. m : a[i] = f[i]
  BY <1>2, <1>3
<1>5. ASSUME NEW i \in 1 .. m + 1 PROVE a[i] = s[i]
  <2>1. i = m + 1 \/ i \in 1 .. m
    OBVIOUS
  <2> QED BY <1>1, <1>2, <1>4, <2>1
<1>6. a = s
  BY <1>4, <1>5, SeqEqual
<1> QED BY <1>1, <1>2, <1>3, <1>6

(* Induction over sequences: a set of them with the empty one, and with    *)
(* each of its members made longer, has them all.                          *)
LEMMA SequenceInduction ==
    ASSUME NEW T, NEW S \in SUBSET Seq(T), <<>> \in S,
           \A s \in S, x \in T : Append(s, x) \in S
    PROVE  S = Seq(T)
<1> DEFINE M == {m \in Nat : \A s \in Seq(T) : Len(s) = m => s \in S}
<1>1. 0 \in M
  BY EmptySeq
<1>2. ASSUME NEW m \in M PROVE m + 1 \in M
  <2> SUFFICES ASSUME NEW s \in Seq(T), Len(s) = m + 1 PROVE s \in S
      OBVIOUS
  <2>1. PICK f, x : f = SubSeq(s, 1, m) /\ x = s[m + 1]
    OBVIOUS
  <2>2. f \in Seq(T) /\ Len(f) = m /\ x \in T /\ Append(f, x) = s
    <3>1. m \in Nat
      OBVIOUS
    <3> HIDE DEF M
    <3> QED BY <2>1, <3>1, LastOff
  <2>3. f \in S
    BY <2>2
  <2> QED BY <2>2, <2>3
<1>3. M = Nat
  <2>1. M \in SUBSET Nat
    OBVIOUS
  <2> HIDE DEF M
  <2> QED BY <1>1, <1>2, <2>1, SetInduction
<1>4. ASSUME NEW s \in Seq(T) PROVE s \in S
  <2>1. Len(s) \in M
    BY <1>3, LenProperties
  <2> QED BY <2>1
<1> QED BY <1>4

(* Nothing put together is nothing.                                        *)
LEMMA FlattenNone == FlattenSeq(<<>>) = <<>>
BY EmptySeq DEF FlattenSeq

(* A sequence more is put behind the others.                               *)
LEMMA FlattenAppend ==
    ASSUME NEW T, NEW ss \in Seq(Seq(T)), NEW t \in Seq(T)
    PROVE  /\ FlattenSeq(ss) \in Seq(T)
           /\ FlattenSeq(Append(ss, t)) = FlattenSeq(ss) \o t
<1>1. PICK n \in Nat : n = Len(ss)
  OBVIOUS
<1>2. PICK tt \in Seq(Seq(T)) : /\ tt = Append(ss, t) /\ Len(tt) = n + 1 /\ tt[n + 1] = t
                                /\ \A i \in 1 .. n : tt[i] = ss[i]
  <2> DEFINE U == Seq(T)
  <2> HIDE DEF U
  <2>1. ss \in Seq(U) /\ t \in U
    BY DEF U
  <2>2. PICK tt : tt = Append(ss, t)
    OBVIOUS
  <2>3. /\ tt \in Seq(U) /\ Len(tt) = n + 1 /\ tt[n + 1] = t
        /\ \A i \in 1 .. n : tt[i] = ss[i]
    BY <1>1, <2>1, <2>2
  <2> QED BY <2>2, <2>3 DEF U
<1>3. PICK g \in [0 .. n -> Seq(T)] :
         /\ g[0] = <<>> /\ \A i \in 1 .. n : g[i] = g[i - 1] \o ss[i]
         /\ FlattenSeq(ss) = g[n]
  BY <1>1, FlattenLoop
<1>4. PICK h \in [0 .. n + 1 -> Seq(T)] :
         /\ h[0] = <<>> /\ \A i \in 1 .. n + 1 : h[i] = h[i - 1] \o tt[i]
         /\ FlattenSeq(tt) = h[n + 1]
  <2>1. \E h \in [0 .. Len(tt) -> Seq(T)] :
            /\ h[0] = <<>> /\ \A i \in 1 .. Len(tt) : h[i] = h[i - 1] \o tt[i]
            /\ FlattenSeq(tt) = h[Len(tt)]
    BY FlattenLoop
  <2> QED BY <1>2, <2>1
<1>5. PICK k : k = [i \in 0 .. n |-> h[i]]
  OBVIOUS
<1>6. Agrees(g, k, n)
  <2>1. g = [i \in 0 .. n |-> g[i]] /\ k = [i \in 0 .. n |-> k[i]]
    BY <1>5
  <2>2. g[0] = k[0]
    BY <1>3, <1>4, <1>5
  <2>3. ASSUME NEW i \in 1 .. n, g[i - 1] = k[i - 1] PROVE g[i] = k[i]
    <3>1. i \in 1 .. n + 1 /\ i \in 0 .. n /\ i - 1 \in 0 .. n
      OBVIOUS
    <3>2. h[i] = h[i - 1] \o ss[i]
      BY <1>2, <1>4, <3>1
    <3> QED BY <1>3, <1>5, <2>3, <3>1, <3>2
  <2> QED BY <2>1, <2>2, <2>3 DEF Agrees
<1>7. g = k
  BY <1>6, Agreement
<1>8. h[n] = g[n]
  BY <1>5, <1>7
<1>9. h[n + 1] = h[n] \o t
  <2>1. n + 1 \in 1 .. n + 1 /\ (n + 1) - 1 = n
    OBVIOUS
  <2>2. h[n + 1] = h[(n + 1) - 1] \o tt[n + 1]
    BY <1>4, <2>1
  <2> QED BY <1>2, <2>1, <2>2
<1> QED BY <1>2, <1>3, <1>4, <1>8, <1>9

(* Names put together, one after the other. *)
LEMMA JoinedNone == Joined(<<>>) = <<>>
<1>1. [i \in 1 .. Len(<<>>) |-> Append(<<>>[i], Slash)] = <<>>
  BY EmptySeq
<1> QED BY <1>1, FlattenNone DEF Joined

(* A name more, with its slash.                                            *)
LEMMA JoinedAppend ==
    ASSUME NEW ns \in Seq(Text), NEW n \in Text
    PROVE  /\ Joined(ns) \in Text
           /\ Joined(Append(ns, n)) = Joined(ns) \o Append(n, Slash)
<1>1. PICK k \in Nat : k = Len(ns) /\ \A i \in 1 .. k : ns[i] \in Text
  OBVIOUS
<1>2. Slash \in Byte
  BY DEF Slash, Byte
<1>3. ASSUME NEW x \in Text PROVE Append(x, Slash) \in Text
  BY <1>2 DEF Text
<1>4. PICK ss \in Seq(Text) : ss = [i \in 1 .. k |-> Append(ns[i], Slash)]
  <2>1. PICK ss : ss = [i \in 1 .. k |-> Append(ns[i], Slash)]
    OBVIOUS
  <2>2. ss \in [1 .. k -> Text]
    BY <1>1, <1>3, <2>1
  <2>3. ss \in Seq(Text)
    BY <2>2, SeqDef
  <2> QED BY <2>1, <2>3
<1>5. PICK t \in Text : t = Append(n, Slash)
  BY <1>3
<1>6. PICK ms : ms = Append(ns, n)
  OBVIOUS
<1>7. Len(ms) = k + 1 /\ ms[k + 1] = n /\ \A i \in 1 .. k : ms[i] = ns[i]
  BY <1>1, <1>6
<1>8. [i \in 1 .. Len(ms) |-> Append(ms[i], Slash)] = Append(ss, t)
  <2>1. PICK a : a = [i \in 1 .. k + 1 |-> Append(ms[i], Slash)]
    OBVIOUS
  <2>2. PICK b \in Seq(Text) : b = Append(ss, t)
    BY <1>4, <1>5, AppendProperties
  <2>3. Len(ss) = k
    BY <1>4
  <2>4. Len(b) = k + 1 /\ b[k + 1] = t /\ \A i \in 1 .. k : b[i] = ss[i]
    BY <2>2, <2>3
  <2>5. ASSUME NEW i \in 1 .. k + 1 PROVE a[i] = b[i]
    <3>1. CASE i = k + 1
      BY <1>5, <1>7, <2>1, <2>4, <3>1
    <3>2. CASE i # k + 1
      <4>1. i \in 1 .. k
        BY <3>2
      <4>2. a[i] = Append(ns[i], Slash) /\ b[i] = ss[i]
        BY <1>7, <2>1, <2>4, <4>1
      <4> QED BY <1>4, <4>1, <4>2
    <3> QED BY <3>1, <3>2
  <2>6. a = b
    BY <2>1, <2>4, <2>5
  <2> QED BY <1>7, <2>1, <2>2, <2>6
<1>9. Joined(ns) = FlattenSeq(ss) /\ Joined(ms) = FlattenSeq(Append(ss, t))
  BY <1>1, <1>4, <1>8 DEF Joined
<1>10. FlattenSeq(ss) \in Seq(Byte) /\ FlattenSeq(Append(ss, t)) = FlattenSeq(ss) \o t
  BY FlattenAppend DEF Text
<1> QED BY <1>5, <1>6, <1>9, <1>10 DEF Text

-----------------------------------------------------------------------------
(* The pieces of a text.                                                   *)

CutState == [pieces : Seq(Text), open : Text]
Uncut == [pieces |-> <<>>, open |-> <<>>]

(* A character more.                                                       *)
CutNext(b, x, c, d) ==
    IF x = c THEN [pieces |-> Close(b, d), open |-> <<>>]
    ELSE [pieces |-> b.pieces, open |-> Append(b.open, x)]

Cutting(g, c, s, d) ==
    g = [i \in 0 .. Len(s) |->
            IF i = 0 THEN [pieces |-> <<>>, open |-> <<>>]
            ELSE IF s[i] = c THEN [pieces |-> Close(g[i - 1], d), open |-> <<>>]
            ELSE [pieces |-> g[i - 1].pieces, open |-> Append(g[i - 1].open, s[i])]]

(* A turn of the loop keeps pieces that are texts.                         *)
LEMMA CutState1 ==
    ASSUME NEW b \in CutState, NEW x \in Byte, NEW c, NEW d
    PROVE  /\ Uncut \in CutState
           /\ Close(b, d) \in Seq(Text)
           /\ CutNext(b, x, c, d) \in CutState
<1>1. <<>> \in Text /\ <<>> \in Seq(Text)
  BY DEF Text
<1>2. b.pieces \in Seq(Text) /\ b.open \in Text /\ b = [pieces |-> b.pieces, open |-> b.open]
  BY DEF CutState
<1>3. Append(b.open, x) \in Text
  BY <1>2 DEF Text
<1>4. Append(b.pieces, b.open) \in Seq(Text)
  BY <1>2, AppendProperties
<1>5. Close(b, d) \in Seq(Text)
  BY <1>2, <1>4 DEF Close
<1> QED BY <1>1, <1>2, <1>3, <1>5 DEF CutState, CutNext, Uncut

(* The loop over n characters, which s has.                                *)
CutsUp(g, c, s, d, n) ==
    /\ g \in [0 .. n -> CutState] /\ g = [i \in 0 .. n |-> g[i]] /\ g[0] = Uncut
    /\ \A i \in 1 .. n : g[i] = CutNext(g[i - 1], s[i], c, d)
    /\ Pieces(c, s, d) = Close(g[n], d)

(* Pieces is its loop, and no more than its loop.                          *)
LEMMA CutLoop ==
    ASSUME NEW c, NEW d, NEW s \in Text
    PROVE  \E g : CutsUp(g, c, s, d, Len(s))
<1>1. PICK n \in Nat : n = Len(s) /\ \A i \in 1 .. n : s[i] \in Byte
  BY DEF Text
<1>2. PICK F : Makes(F, n, CutState)
               /\ \A i \in 1 .. n, x \in CutState : F[<<i, x>>] = CutNext(x, s[i], c, d)
  <2>1. PICK F : F = [p \in (1 .. n) \X CutState |-> CutNext(p[2], s[p[1]], c, d)]
    OBVIOUS
  <2>2. \A i \in 1 .. n, x \in CutState : F[<<i, x>>] = CutNext(x, s[i], c, d)
    BY <2>1
  <2>3. F \in [(1 .. n) \X CutState -> CutState]
    BY <1>1, <2>1, CutState1
  <2> QED BY <2>2, <2>3, Zenon DEF Makes
<1>3. Uncut \in CutState
  BY DEF CutState, Uncut, Text
<1>4. PICK f : Follows(f, F, n, CutState, Uncut)
  BY <1>2, <1>3, Recursion
<1>5. /\ f \in [0 .. n -> CutState] /\ f = [i \in 0 .. n |-> f[i]] /\ f[0] = Uncut
      /\ \A i \in 1 .. n : f[i] = F[<<i, f[i - 1]>>]
  BY <1>4 DEF Follows
<1>6. \A i \in 1 .. n : f[i] = CutNext(f[i - 1], s[i], c, d)
  <2>1. ASSUME NEW i \in 1 .. n PROVE f[i - 1] \in CutState
    BY <1>5
  <2> QED BY <1>2, <1>5, <2>1
<1>7. ASSUME NEW g
      PROVE  Cutting(g, c, s, d) <=>
             g = [i \in 0 .. n |-> IF i = 0 THEN Uncut ELSE CutNext(g[i - 1], s[i], c, d)]
  BY <1>1 DEF Cutting, CutNext, Uncut
<1>8. Cutting(f, c, s, d)
  <2>1. ASSUME NEW i \in 0 .. n
        PROVE  f[i] = IF i = 0 THEN Uncut ELSE CutNext(f[i - 1], s[i], c, d)
    <3>1. i = 0 \/ i \in 1 .. n
      OBVIOUS
    <3> QED BY <1>5, <1>6, <3>1
  <2>2. f = [i \in 0 .. n |-> IF i = 0 THEN Uncut ELSE CutNext(f[i - 1], s[i], c, d)]
    BY <1>5, <2>1
  <2> QED BY <1>7, <2>2
<1>9. PICK g : g = (CHOOSE h : Cutting(h, c, s, d)) /\ Pieces(c, s, d) = Close(g[Len(s)], d)
  BY DEF Pieces, Cutting
<1>10. g = [i \in 0 .. n |-> IF i = 0 THEN Uncut ELSE CutNext(g[i - 1], s[i], c, d)]
  <2>1. Cutting(g, c, s, d)
    BY <1>8, <1>9
  <2> QED BY <1>7, <2>1
<1>11. /\ g = [i \in 0 .. n |-> g[i]] /\ g[0] = Uncut
       /\ \A i \in 1 .. n : g[i] = CutNext(g[i - 1], s[i], c, d)
  BY <1>10
<1>12. Follows(g, F, n, CutState, Uncut)
  BY <1>2, <1>3, <1>11, Obeying
<1>13. g \in [0 .. n -> CutState]
  BY <1>12 DEF Follows
<1> QED BY <1>1, <1>9, <1>11, <1>13 DEF CutsUp

(* What was cut off before stays as it is. *)
Behind(ps, b) == [pieces |-> ps \o b.pieces, open |-> b.open]

(* The end of the text, and a character more, behind what was cut off      *)
(* before.                                                                 *)
LEMMA CloseBehind ==
    ASSUME NEW ps \in Seq(Text), NEW b \in CutState, NEW d
    PROVE  Close(Behind(ps, b), d) = ps \o Close(b, d)
<1>1. PICK p \in Seq(Text), o \in Text : p = b.pieces /\ o = b.open
  BY DEF CutState
<1>2. PICK y : y = Behind(ps, b)
  OBVIOUS
<1>3. y.pieces = ps \o p /\ y.open = o
  BY <1>1, <1>2 DEF Behind
<1>4. Append(ps \o p, o) = ps \o Append(p, o)
  <2>1. PICK l : l = ps \o p
    OBVIOUS
  <2>2. l \in Seq(Text)
    BY <2>1, ConcatProperties
  <2>3. Append(l, o) = l \o <<o>> /\ Append(p, o) = p \o <<o>>
    BY <2>2, AppendIsConcat
  <2>4. <<o>> \in Seq(Text)
    OBVIOUS
  <2>5. (ps \o p) \o <<o>> = ps \o (p \o <<o>>)
    BY <2>4, ConcatAssociative
  <2> QED BY <2>1, <2>3, <2>5
<1>5. Close(y, d) = ps \o Close(b, d)
  BY <1>1, <1>3, <1>4 DEF Close
<1> QED BY <1>2, <1>5

(* A character more, behind pieces cut off before.                         *)
LEMMA CutBehind ==
    ASSUME NEW ps \in Seq(Text), NEW b \in CutState, NEW x, NEW c, NEW d
    PROVE  CutNext(Behind(ps, b), x, c, d) = Behind(ps, CutNext(b, x, c, d))
<1>1. PICK y : y = Behind(ps, b)
  OBVIOUS
<1>2. y.pieces = ps \o b.pieces /\ y.open = b.open
  BY <1>1 DEF Behind
<1>3. Close(y, d) = ps \o Close(b, d)
  BY <1>1, CloseBehind
<1>4. CutNext(y, x, c, d) = Behind(ps, CutNext(b, x, c, d))
  BY <1>2, <1>3 DEF CutNext, Behind
<1> QED BY <1>1, <1>4

(* A text with a c in it has the pieces before the c and those behind it. *)
Parted(u, s, c, t) ==
    /\ s \in Text /\ t \in Text /\ u \in Text
    /\ Len(u) = Len(s) + 1 + Len(t) /\ u[Len(s) + 1] = c
    /\ \A i \in 1 .. Len(s) : u[i] = s[i]
    /\ \A i \in 1 .. Len(t) : u[Len(s) + 1 + i] = t[i]

(* The pieces of a text with a c in it are those of its two parts.         *)
LEMMA PiecesJoin ==
    ASSUME NEW c \in Byte, NEW d, NEW s, NEW t, NEW u, Parted(u, s, c, t)
    PROVE  Pieces(c, u, d) = Pieces(c, s, d) \o Pieces(c, t, d)
<1>0. /\ s \in Text /\ t \in Text /\ u \in Text
      /\ Len(u) = Len(s) + 1 + Len(t) /\ u[Len(s) + 1] = c
      /\ \A i \in 1 .. Len(s) : u[i] = s[i]
      /\ \A i \in 1 .. Len(t) : u[Len(s) + 1 + i] = t[i]
  BY DEF Parted
<1>1. PICK m \in Nat, n \in Nat : m = Len(s) /\ n = Len(t)
  BY <1>0 DEF Text
<1>2. PICK g :
         /\ g \in [0 .. m -> CutState] /\ g = [i \in 0 .. m |-> g[i]] /\ g[0] = Uncut
         /\ \A i \in 1 .. m : g[i] = CutNext(g[i - 1], s[i], c, d)
         /\ Pieces(c, s, d) = Close(g[m], d)
  <2>1. \E g : CutsUp(g, c, s, d, m)
    BY <1>0, <1>1, CutLoop
  <2> QED BY <2>1 DEF CutsUp
<1>3. PICK h :
         /\ h \in [0 .. n -> CutState] /\ h = [i \in 0 .. n |-> h[i]] /\ h[0] = Uncut
         /\ \A i \in 1 .. n : h[i] = CutNext(h[i - 1], t[i], c, d)
         /\ Pieces(c, t, d) = Close(h[n], d)
  <2>1. \E h : CutsUp(h, c, t, d, n)
    BY <1>0, <1>1, CutLoop
  <2> QED BY <2>1 DEF CutsUp
<1>4. PICK k :
         /\ k \in [0 .. m + 1 + n -> CutState] /\ k = [i \in 0 .. m + 1 + n |-> k[i]] /\ k[0] = Uncut
         /\ \A i \in 1 .. m + 1 + n : k[i] = CutNext(k[i - 1], u[i], c, d)
         /\ Pieces(c, u, d) = Close(k[m + 1 + n], d)
  <2>1. Len(u) = m + 1 + n
    BY <1>0, <1>1
  <2>2. \E k : CutsUp(k, c, u, d, Len(u))
    BY <1>0, CutLoop
  <2> QED BY <2>1, <2>2 DEF CutsUp
<1>5. \A i \in 1 .. m : s[i] \in Byte /\ u[i] = s[i]
  BY <1>0, <1>1 DEF Text
<1>6. \A i \in 1 .. n : t[i] \in Byte /\ u[m + 1 + i] = t[i]
  BY <1>0, <1>1 DEF Text
<1>7. u[m + 1] = c
  BY <1>0, <1>1
<1>8. k[m] = g[m]
  <2>1. PICK e : e = [i \in 0 .. m |-> k[i]]
    OBVIOUS
  <2>2. ASSUME NEW i \in 1 .. m, g[i - 1] = e[i - 1] PROVE g[i] = e[i]
    <3>1. i \in 1 .. m + 1 + n /\ i \in 0 .. m /\ i - 1 \in 0 .. m
      OBVIOUS
    <3>2. k[i] = CutNext(k[i - 1], s[i], c, d)
      BY <1>4, <1>5, <3>1
    <3>3. e[i] = k[i] /\ e[i - 1] = k[i - 1]
      BY <2>1, <3>1
    <3> QED BY <1>2, <2>2, <3>2, <3>3
  <2>3. g[0] = e[0] /\ g = [i \in 0 .. m |-> g[i]] /\ e = [i \in 0 .. m |-> e[i]]
    BY <1>2, <1>4, <2>1
  <2>4. g = e
    <3>1. Agrees(g, e, m)
      BY <2>2, <2>3 DEF Agrees
    <3> QED BY <3>1, Agreement
  <2> QED BY <2>1, <2>4
<1>9. PICK ps \in Seq(Text) : ps = Pieces(c, s, d)
  <2>1. g[m] \in CutState /\ c \in Byte
    BY <1>2
  <2> QED BY <1>2, <2>1, CutState1
<1>10. k[m + 1] = Behind(ps, Uncut)
  <2>1. m + 1 \in 1 .. m + 1 + n /\ (m + 1) - 1 = m
    OBVIOUS
  <2>2. k[m + 1] = CutNext(k[(m + 1) - 1], u[m + 1], c, d)
    BY <1>4, <2>1
  <2>3. k[m + 1] = CutNext(g[m], c, c, d)
    BY <1>7, <1>8, <2>1, <2>2
  <2>4. ps = Close(g[m], d)
    BY <1>2, <1>9
  <2>5. ps \o <<>> = ps
    BY ConcatEmptySeq
  <2> QED BY <2>3, <2>4, <2>5 DEF CutNext, Behind, Uncut
<1>11. k[m + 1 + n] = Behind(ps, h[n])
  <2>1. PICK e : e = [i \in 0 .. n |-> k[m + 1 + i]]
    OBVIOUS
  <2>2. PICK f : f = [i \in 0 .. n |-> Behind(ps, h[i])]
    OBVIOUS
  <2>3. ASSUME NEW i \in 1 .. n, e[i - 1] = f[i - 1] PROVE e[i] = f[i]
    <3>1. m + 1 + i \in 1 .. m + 1 + n /\ i \in 0 .. n /\ i - 1 \in 0 .. n
          /\ (m + 1 + i) - 1 = m + 1 + (i - 1)
      OBVIOUS
    <3>2. k[m + 1 + i] = CutNext(k[(m + 1 + i) - 1], u[m + 1 + i], c, d)
      BY <1>4, <3>1
    <3>3. k[m + 1 + i] = CutNext(k[m + 1 + (i - 1)], t[i], c, d)
      BY <1>6, <3>1, <3>2
    <3>4. e[i] = CutNext(f[i - 1], t[i], c, d)
      BY <2>1, <2>3, <3>1, <3>3
    <3>5. f[i - 1] = Behind(ps, h[i - 1]) /\ f[i] = Behind(ps, h[i])
      BY <2>2, <3>1
    <3>6. CutNext(Behind(ps, h[i - 1]), t[i], c, d) = Behind(ps, CutNext(h[i - 1], t[i], c, d))
      <4>1. h[i - 1] \in CutState /\ t[i] \in Byte
        BY <1>3, <1>6, <3>1
      <4> QED BY <4>1, CutBehind
    <3> QED BY <1>3, <3>4, <3>5, <3>6
  <2>4. e[0] = f[0]
    <3>1. e[0] = k[m + 1]
      BY <2>1
    <3> QED BY <1>3, <1>10, <2>2, <3>1
  <2>5. e = f
    <3>1. e = [i \in 0 .. n |-> e[i]] /\ f = [i \in 0 .. n |-> f[i]]
      BY <2>1, <2>2
    <3>2. Agrees(e, f, n)
      BY <2>3, <2>4, <3>1 DEF Agrees
    <3> QED BY <3>2, Agreement
  <2> QED BY <2>1, <2>2, <2>5
<1>12. Close(Behind(ps, h[n]), d) = ps \o Close(h[n], d)
  <2>1. h[n] \in CutState
    BY <1>3
  <2> QED BY <2>1, CloseBehind
<1> QED BY <1>3, <1>4, <1>9, <1>11, <1>12

(* A text without c is one piece. *)
LEMMA PiecesOne ==
    ASSUME NEW c \in Byte, NEW d, NEW t \in Text, \A i \in 1 .. Len(t) : t[i] # c
    PROVE  Pieces(c, t, d) = IF t \in d THEN <<>> ELSE <<t>>
<1>1. PICK n \in Nat : n = Len(t)
  BY DEF Text
<1>2. PICK g :
         /\ g \in [0 .. n -> CutState] /\ g = [i \in 0 .. n |-> g[i]] /\ g[0] = Uncut
         /\ \A i \in 1 .. n : g[i] = CutNext(g[i - 1], t[i], c, d)
         /\ Pieces(c, t, d) = Close(g[n], d)
  <2>1. \E g : CutsUp(g, c, t, d, n)
    BY <1>1, CutLoop
  <2> QED BY <2>1 DEF CutsUp
<1>3. PICK e : e = [i \in 0 .. n |-> [pieces |-> <<>>, open |-> SubSeq(t, 1, i)]]
  OBVIOUS
<1>4. ASSUME NEW i \in 1 .. n, g[i - 1] = e[i - 1] PROVE g[i] = e[i]
  <2>1. i \in 0 .. n /\ i - 1 \in 0 .. n
    OBVIOUS
  <2>2. e[i - 1] = [pieces |-> <<>>, open |-> SubSeq(t, 1, i - 1)]
        /\ e[i] = [pieces |-> <<>>, open |-> SubSeq(t, 1, i)]
    BY <1>3, <2>1
  <2>3. t[i] # c
    BY <1>1
  <2>4. Append(SubSeq(t, 1, i - 1), t[i]) = SubSeq(t, 1, i)
    <3>1. SubSeq(t, 1, i) = SubSeq(t, 1, i - 1) \o <<t[i]>>
      BY <1>1, SubSeqRecursiveSecond DEF Text
    <3>2. SubSeq(t, 1, i - 1) \in Text /\ t[i] \in Byte
      BY <1>1 DEF Text
    <3> QED BY <3>1, <3>2, AppendIsConcat DEF Text
  <2>5. g[i] = CutNext(e[i - 1], t[i], c, d)
    BY <1>2, <1>4
  <2>6. g[i] = [pieces |-> e[i - 1].pieces, open |-> Append(e[i - 1].open, t[i])]
    BY <2>3, <2>5 DEF CutNext
  <2>7. e[i - 1].pieces = <<>> /\ e[i - 1].open = SubSeq(t, 1, i - 1)
    BY <2>2
  <2> QED BY <2>2, <2>4, <2>6, <2>7
<1>5. g[0] = e[0]
  <2>1. SubSeq(t, 1, 0) = <<>>
    BY SubSeqEmpty
  <2> QED BY <1>2, <1>3, <2>1 DEF Uncut
<1>6. g = e
  <2>1. g = [i \in 0 .. n |-> g[i]] /\ e = [i \in 0 .. n |-> e[i]]
    BY <1>2, <1>3
  <2>2. Agrees(g, e, n)
    BY <1>4, <1>5, <2>1 DEF Agrees
  <2> QED BY <2>2, Agreement
<1>7. SubSeq(t, 1, n) = t
  BY <1>1, SubSeqFull DEF Text
<1>8. g[n] = [pieces |-> <<>>, open |-> t]
  BY <1>3, <1>6, <1>7
<1>9. Append(<<>>, t) = <<t>>
  OBVIOUS
<1> QED BY <1>2, <1>8, <1>9 DEF Close

(* No piece has a c in it, or is one that is dropped. *)
Piece(c, d) == {p \in Text : p \notin d /\ \A i \in 1 .. Len(p) : p[i] # c}

(* The pieces that are kept.                                               *)
LEMMA PiecesAre ==
    ASSUME NEW c \in Byte, NEW d, NEW s \in Text
    PROVE  Pieces(c, s, d) \in Seq(Piece(c, d))
<1>1. PICK n \in Nat : n = Len(s) /\ \A i \in 1 .. n : s[i] \in Byte
  BY DEF Text
<1>2. PICK g :
         /\ g \in [0 .. n -> CutState] /\ g = [i \in 0 .. n |-> g[i]] /\ g[0] = Uncut
         /\ \A i \in 1 .. n : g[i] = CutNext(g[i - 1], s[i], c, d)
         /\ Pieces(c, s, d) = Close(g[n], d)
  <2>1. \E g : CutsUp(g, c, s, d, n)
    BY <1>1, CutLoop
  <2> QED BY <2>1 DEF CutsUp
<1> DEFINE P == Piece(c, d)
           O == Piece(c, {})
           Good(b) == b.pieces \in Seq(P) /\ b.open \in O
           S == {i \in Nat : i <= n => Good(g[i])}
<1>3. ASSUME NEW b, Good(b) PROVE Close(b, d) \in Seq(P)
  <2>1. PICK ps \in Seq(P), o \in O : ps = b.pieces /\ o = b.open
    BY <1>3
  <2>2. CASE o \in d
    BY <2>1, <2>2 DEF Close
  <2>3. CASE o \notin d
    <3>1. o \in P
      BY <2>3 DEF Piece
    <3> HIDE DEF P
    <3>2. Append(ps, o) \in Seq(P)
      BY <3>1, AppendProperties
    <3> QED BY <2>1, <2>3, <3>2 DEF Close
  <2> QED BY <2>2, <2>3
<1>4. 0 \in S
  <2>1. <<>> \in O
    BY EmptySeq DEF Piece, Text
  <2>2. <<>> \in Seq(P)
    BY EmptySeq
  <2>3. g[0].pieces = <<>> /\ g[0].open = <<>>
    BY <1>2 DEF Uncut
  <2> HIDE DEF P, O
  <2> QED BY <2>1, <2>2, <2>3
<1>5. ASSUME NEW i \in S PROVE i + 1 \in S
  <2>1. i \in Nat /\ i + 1 \in Nat
    OBVIOUS
  <2> SUFFICES ASSUME i + 1 <= n PROVE Good(g[i + 1])
      BY <2>1
  <2>2. i + 1 \in 1 .. n /\ (i + 1) - 1 = i /\ Good(g[i])
    BY <2>1
  <2>3. g[i + 1] = CutNext(g[i], s[i + 1], c, d)
    <3>1. g[i + 1] = CutNext(g[(i + 1) - 1], s[i + 1], c, d)
      BY <1>2, <2>2
    <3> QED BY <2>2, <3>1
  <2>4. PICK x \in Byte : x = s[i + 1]
    BY <1>1, <2>2
  <2>5. CASE x = c
    <3>1. <<>> \in O
      BY DEF Piece, Text
    <3>2. Close(g[i], d) \in Seq(P)
      BY <1>3, <2>2
    <3>3. g[i + 1] = [pieces |-> Close(g[i], d), open |-> <<>>]
      BY <2>3, <2>4, <2>5 DEF CutNext
    <3> QED BY <3>1, <3>2, <3>3
  <2>6. CASE x # c
    <3>1. PICK o \in O : o = g[i].open
      BY <2>2
    <3>2. Append(o, x) \in O
      <4>1. o \in Text /\ \A j \in 1 .. Len(o) : o[j] # c
        BY DEF Piece
      <4>2. PICK a : a = Append(o, x)
        OBVIOUS
      <4>3. a \in Text /\ Len(a) = Len(o) + 1 /\ a[Len(o) + 1] = x /\ Len(o) \in Nat
            /\ \A j \in 1 .. Len(o) : a[j] = o[j]
        BY <4>1, <4>2 DEF Text
      <4>4. ASSUME NEW j \in 1 .. Len(a) PROVE a[j] # c
        <5>1. j = Len(o) + 1 \/ j \in 1 .. Len(o)
          BY <4>3
        <5> QED BY <2>6, <4>1, <4>3, <5>1
      <4> QED BY <4>2, <4>3, <4>4 DEF Piece
    <3>3. g[i + 1] = [pieces |-> g[i].pieces, open |-> Append(o, x)]
      BY <2>3, <2>4, <2>6, <3>1 DEF CutNext
    <3> QED BY <2>2, <3>2, <3>3
  <2> QED BY <2>5, <2>6
<1>6. n \in S
  <2>1. S \in SUBSET Nat
    OBVIOUS
  <2> HIDE DEF S
  <2> QED BY <1>4, <1>5, <2>1, SetInduction
<1>7. Good(g[n])
  BY <1>6
<1> HIDE DEF Good
<1> QED BY <1>2, <1>3, <1>7

-----------------------------------------------------------------------------
(* Names and paths.                                                        *)

NameText == Piece(Slash, {<<>>, <<Dot>>})
NoSlash(s) == \A i \in 1 .. Len(s) : s[i] # Slash
EndsInSlash(s) == s # <<>> /\ s[Len(s)] = Slash

(* A name is a text without slashes that means something.                  *)
LEMMA NameIs ==
    ASSUME NEW n
    PROVE  n \in NameText <=> n \in Text /\ NoSlash(n) /\ n # <<>> /\ n # <<Dot>>
BY DEF NameText, Piece, NoSlash

(* The names of a path are names, and those of one without slashes are     *)
(* itself.                                                                 *)
LEMMA NamesAre ==
    ASSUME NEW s \in Text
    PROVE  Names(s) \in Seq(NameText) /\ Names(s) \in Seq(Text)
<1>1. Slash \in Byte
  BY DEF Slash, Byte
<1>2. Names(s) \in Seq(NameText)
  BY <1>1, PiecesAre DEF Names, NameText
<1>3. NameText \subseteq Text
  BY DEF NameText, Piece
<1> QED BY <1>2, <1>3, SeqMonotonic

(* A text without slashes is one name, or none.                            *)
LEMMA NamesOne ==
    ASSUME NEW n \in Text, NoSlash(n)
    PROVE  Names(n) = IF n \in NameText THEN <<n>> ELSE <<>>
<1>1. Slash \in Byte
  BY DEF Slash, Byte
<1>2. Names(n) = IF n \in {<<>>, <<Dot>>} THEN <<>> ELSE <<n>>
  BY <1>1, PiecesOne DEF Names, NoSlash
<1> QED BY <1>2, NameIs

(* Nothing has no names.                                                   *)
LEMMA NamesNone == Names(<<>>) = <<>>
<1>1. <<>> \in Text /\ NoSlash(<<>>) /\ <<>> \notin NameText
  BY NameIs DEF Text, NoSlash
<1> QED BY <1>1, NamesOne

(* The names of a path with a slash in it are those of its two parts.      *)
LEMMA NamesParted ==
    ASSUME NEW s, NEW t, NEW u, Parted(u, s, Slash, t)
    PROVE  Names(u) = Names(s) \o Names(t)
<1>1. Slash \in Byte
  BY DEF Slash, Byte
<1> QED BY <1>1, PiecesJoin DEF Names

(* The pieces of a text are texts.                                         *)
LEMMA PiecesSeq ==
    ASSUME NEW d, NEW s \in Text
    PROVE  Pieces(Slash, s, d) \in Seq(Text)
<1>1. Slash \in Byte
  BY DEF Slash, Byte
<1>2. Pieces(Slash, s, d) \in Seq(Piece(Slash, d))
  BY <1>1, PiecesAre
<1>3. Piece(Slash, d) \subseteq Text
  BY DEF Piece
<1> QED BY <1>2, <1>3, SeqMonotonic

(* Behind a slash the names go on. *)
LEMMA PiecesBehind ==
    ASSUME NEW d, <<>> \in d, NEW s \in Text, NEW t \in Text, s = <<>> \/ EndsInSlash(s)
    PROVE  Pieces(Slash, s \o t, d) = Pieces(Slash, s, d) \o Pieces(Slash, t, d)
<1>0. Slash \in Byte /\ Pieces(Slash, s, d) \in Seq(Text) /\ Pieces(Slash, t, d) \in Seq(Text)
  BY PiecesSeq DEF Slash, Byte
<1>3. Pieces(Slash, <<>>, d) = <<>>
  <2>1. <<>> \in Text /\ \A i \in 1 .. Len(<<>>) : <<>>[i] # Slash
    BY DEF Text
  <2> QED BY <1>0, <2>1, PiecesOne
<1>1. CASE s = <<>>
  <2>1. s \o t = t
    BY <1>1 DEF Text
  <2>2. <<>> \o Pieces(Slash, t, d) = Pieces(Slash, t, d)
    BY <1>0, ConcatEmptySeq
  <2> QED BY <1>1, <2>1, <2>2, <1>3
<1>2. CASE EndsInSlash(s)
  <2>1. PICK m \in Nat : Len(s) = m + 1 /\ s[m + 1] = Slash
    <3>1. Len(s) \in Nat \ {0} /\ s[Len(s)] = Slash
      BY <1>2 DEF EndsInSlash, Text
    <3>2. Len(s) - 1 \in Nat /\ Len(s) = (Len(s) - 1) + 1
      BY <3>1
    <3> QED BY <3>1, <3>2
  <2>2. PICK r : r = SubSeq(s, 1, m)
    OBVIOUS
  <2>3. r \in Text /\ Len(r) = m /\ \A i \in 1 .. m : r[i] = s[i]
    BY <2>1, <2>2 DEF Text
  <2>4. Pieces(Slash, s, d) = Pieces(Slash, r, d) \o Pieces(Slash, <<>>, d)
    <3>1. <<>> \in Text /\ Len(<<>>) = 0
      BY DEF Text
    <3>2. Parted(s, r, Slash, <<>>)
      BY <2>1, <2>3, <3>1 DEF Parted
    <3> QED BY <3>2, <1>0, PiecesJoin
  <2>5. Pieces(Slash, r, d) \in Seq(Text)
    BY <2>3, PiecesSeq
  <2>6. Pieces(Slash, s, d) = Pieces(Slash, r, d)
    BY <2>4, <2>5, <1>3, ConcatEmptySeq
  <2>7. Pieces(Slash, s \o t, d) = Pieces(Slash, r, d) \o Pieces(Slash, t, d)
    <3>1. PICK u : u = s \o t
      OBVIOUS
    <3>2. u \in Text /\ Len(u) = Len(s) + Len(t)
          /\ \A i \in 1 .. Len(s) + Len(t) : u[i] = IF i <= Len(s) THEN s[i] ELSE t[i - Len(s)]
      BY <3>1, ConcatProperties DEF Text
    <3>3. PICK n \in Nat : n = Len(t)
      BY DEF Text
    <3>4. Len(u) = Len(r) + 1 + Len(t)
      BY <2>1, <2>3, <3>2, <3>3
    <3>5. u[Len(r) + 1] = Slash
      BY <2>1, <2>3, <3>2, <3>3
    <3>6. ASSUME NEW i \in 1 .. Len(r) PROVE u[i] = r[i]
      BY <2>1, <2>3, <3>2, <3>3
    <3>7. ASSUME NEW i \in 1 .. Len(t) PROVE u[Len(r) + 1 + i] = t[i]
      <4>1. i \in 1 .. n
        BY <3>3
      <4>2. m + 1 + i \in 1 .. (m + 1) + n /\ ~(m + 1 + i <= m + 1) /\ (m + 1 + i) - (m + 1) = i
        BY <4>1
      <4> QED BY <2>1, <2>3, <3>2, <3>3, <4>2
    <3>8. Parted(u, r, Slash, t)
      BY <2>3, <3>2, <3>4, <3>5, <3>6, <3>7 DEF Parted
    <3> QED BY <3>1, <3>8, <1>0, PiecesJoin
  <2> QED BY <2>6, <2>7
<1> QED BY <1>1, <1>2

(* Behind a path that ends in a slash the names go on.                     *)
LEMMA NamesBehind ==
    ASSUME NEW s \in Text, NEW t \in Text, s = <<>> \/ EndsInSlash(s)
    PROVE  Names(s \o t) = Names(s) \o Names(t)
<1>1. <<>> \in {<<>>, <<Dot>>}
  OBVIOUS
<1> QED BY <1>1, PiecesBehind DEF Names

(* A name with a slash behind it. *)
LEMMA NamesDir ==
    ASSUME NEW n \in NameText
    PROVE  Names(Append(n, Slash)) = <<n>> /\ Append(n, Slash) \in Text
<1>0. Slash \in Byte /\ n \in Text /\ NoSlash(n)
  BY NameIs DEF Slash, Byte
<1>1. PICK u : u = Append(n, Slash)
  OBVIOUS
<1>2. /\ u \in Text /\ Len(n) \in Nat /\ Len(u) = Len(n) + 1 /\ u[Len(n) + 1] = Slash
      /\ \A i \in 1 .. Len(n) : u[i] = n[i]
  BY <1>0, <1>1 DEF Text
<1>3. <<>> \in Text /\ Len(<<>>) = 0
  BY DEF Text
<1>4. Names(u) = Names(n) \o Names(<<>>)
  <2>1. Parted(u, n, Slash, <<>>)
    BY <1>0, <1>2, <1>3 DEF Parted
  <2> QED BY <2>1, NamesParted
<1>5. Names(n) = <<n>>
  BY <1>0, NamesOne
<1>6. <<n>> \o <<>> = <<n>>
  <2>1. <<n>> \in Seq(Text)
    BY <1>0
  <2> QED BY <2>1, ConcatEmptySeq
<1> QED BY <1>1, <1>2, <1>4, <1>5, <1>6, NamesNone

(* Names put together are a path to a directory. *)
LEMMA JoinedEnds ==
    ASSUME NEW ns \in Seq(Text)
    PROVE  Joined(ns) \in Text /\ (Joined(ns) = <<>> \/ EndsInSlash(Joined(ns)))
           /\ (ns # <<>> => EndsInSlash(Joined(ns)))
<1>1. CASE ns = <<>>
  <2>1. Joined(ns) = <<>> /\ <<>> \in Text
    BY <1>1, JoinedNone DEF Text
  <2> QED BY <1>1, <2>1
<1>2. CASE ns # <<>>
  <2>1. PICK m \in Nat : Len(ns) = m + 1
    <3>1. Len(ns) \in Nat \ {0}
      BY <1>2, EmptySeq
    <3>2. Len(ns) - 1 \in Nat /\ Len(ns) = (Len(ns) - 1) + 1
      BY <3>1
    <3> QED BY <3>2
  <2>2. PICK f \in Seq(Text), n \in Text : ns = Append(f, n)
    <3>1. ns = Append(SubSeq(ns, 1, m), ns[m + 1])
          /\ SubSeq(ns, 1, m) \in Seq(Text) /\ ns[m + 1] \in Text
      BY <2>1, LastOff
    <3> QED BY <3>1
  <2>3. PICK j \in Text : j = Joined(f) /\ Joined(ns) = j \o Append(n, Slash)
    BY <2>2, JoinedAppend
  <2>4. PICK d : d = Append(n, Slash)
    OBVIOUS
  <2>5. d \in Text /\ Len(d) \in Nat \ {0} /\ d[Len(d)] = Slash
    BY <2>4 DEF Text, Slash, Byte
  <2>6. PICK u : u = j \o d
    OBVIOUS
  <2>7. u \in Text /\ Len(u) = Len(j) + Len(d) /\ Len(j) \in Nat
        /\ \A i \in 1 .. Len(j) + Len(d) : u[i] = IF i <= Len(j) THEN j[i] ELSE d[i - Len(j)]
    BY <2>5, <2>6, ConcatProperties DEF Text
  <2>8. u[Len(u)] = Slash /\ u # <<>>
    <3>1. Len(j) + Len(d) \in 1 .. Len(j) + Len(d) /\ ~(Len(j) + Len(d) <= Len(j))
          /\ (Len(j) + Len(d)) - Len(j) = Len(d)
      BY <2>5, <2>7
    <3>2. u[Len(j) + Len(d)] = d[Len(d)]
      BY <2>7, <3>1
    <3>3. Len(u) # 0
      BY <2>5, <2>7
    <3> QED BY <2>5, <2>7, <3>2, <3>3, EmptySeq
  <2> QED BY <2>3, <2>4, <2>6, <2>7, <2>8 DEF EndsInSlash
<1> QED BY <1>1, <1>2

(* Names put together are found again: Joined and Names are inverse.       *)
LEMMA NamesJoined ==
    ASSUME NEW ns \in Seq(NameText)
    PROVE  Names(Joined(ns)) = ns
<1> DEFINE S == {ms \in Seq(NameText) : Names(Joined(ms)) = ms}
<1>0. NameText \subseteq Text
  BY NameIs
<1>1. <<>> \in S
  BY JoinedNone, NamesNone, EmptySeq
<1>2. ASSUME NEW ms \in S, NEW n \in NameText PROVE Append(ms, n) \in S
  <2>1. ms \in Seq(NameText) /\ Names(Joined(ms)) = ms
    OBVIOUS
  <2>2. ms \in Seq(Text) /\ n \in Text
    BY <1>0, <2>1, SeqMonotonic
  <2>3. Joined(Append(ms, n)) = Joined(ms) \o Append(n, Slash)
    BY <2>2, JoinedAppend
  <2>4. Joined(ms) \in Text /\ (Joined(ms) = <<>> \/ EndsInSlash(Joined(ms)))
    BY <2>2, JoinedEnds
  <2>5. Names(Append(n, Slash)) = <<n>> /\ Append(n, Slash) \in Text
    BY NamesDir
  <2>6. Names(Joined(ms) \o Append(n, Slash)) = ms \o <<n>>
    BY <2>1, <2>4, <2>5, NamesBehind
  <2>7. Append(ms, n) = ms \o <<n>> /\ Append(ms, n) \in Seq(NameText)
    BY <2>1, AppendIsConcat, AppendProperties
  <2> QED BY <2>3, <2>6, <2>7
<1>3. S = Seq(NameText)
  <2>1. S \in SUBSET Seq(NameText)
    OBVIOUS
  <2> HIDE DEF S
  <2> QED BY <1>1, <1>2, <2>1, SequenceInduction
<1> QED BY <1>3

(* Before each slash there is a name.                                      *)
Neat(s) ==
    \A i \in 1 .. Len(s) : s[i] = Slash =>
        i > 1 /\ s[i - 1] # Slash /\ (s[i - 1] = Dot => i > 2 /\ s[i - 2] # Slash)

(* Names put together are neat: before each slash there is a name.         *)
LEMMA JoinedNeat ==
    ASSUME NEW ns \in Seq(NameText)
    PROVE  Neat(Joined(ns))
<1> DEFINE S == {ms \in Seq(NameText) : Neat(Joined(ms))}
<1>0. NameText \subseteq Text
  BY NameIs
<1>1. <<>> \in S
  BY JoinedNone, EmptySeq DEF Neat
<1>2. ASSUME NEW ms \in S, NEW n \in NameText PROVE Append(ms, n) \in S
  <2>1. ms \in Seq(NameText) /\ Neat(Joined(ms))
    OBVIOUS
  <2>2. ms \in Seq(Text) /\ n \in Text
    BY <1>0, <2>1, SeqMonotonic
  <2>3. PICK j \in Text : j = Joined(ms) /\ Joined(Append(ms, n)) = j \o Append(n, Slash)
    BY <2>2, JoinedAppend
  <2>4. PICK d : d = Append(n, Slash)
    OBVIOUS
  <2>5. PICK a \in Nat, b \in Nat : a = Len(j) /\ b = Len(n)
    BY <2>2 DEF Text
  <2>6. /\ d \in Text /\ Len(d) = b + 1 /\ d[b + 1] = Slash
        /\ \A i \in 1 .. b : d[i] = n[i]
    BY <2>2, <2>4, <2>5 DEF Text, Slash, Byte
  <2>7. PICK u : u = j \o d
    OBVIOUS
  <2>8. /\ Len(u) = a + (b + 1)
        /\ \A i \in 1 .. a + (b + 1) : u[i] = IF i <= a THEN j[i] ELSE d[i - a]
    <3>1. /\ u \in Text /\ Len(u) = Len(j) + Len(d)
          /\ \A i \in 1 .. Len(j) + Len(d) : u[i] = IF i <= Len(j) THEN j[i] ELSE d[i - Len(j)]
      BY <2>6, <2>7, Glued
    <3> QED BY <2>5, <2>6, <3>1
  <2>9. /\ \A i \in 1 .. b : n[i] # Slash
        /\ b > 0 /\ (b = 1 => n[1] # Dot)
    <3>1. NoSlash(n) /\ n # <<>> /\ n # <<Dot>>
      BY NameIs
    <3>2. b > 0
      BY <2>2, <2>5, <3>1, EmptySeq DEF Text
    <3>3. b = 1 /\ n[1] = Dot => n = <<Dot>>
      <4>1. PICK l : l = <<Dot>>
        OBVIOUS
      <4>2. l \in Text /\ Len(l) = 1 /\ l[1] = Dot
        BY <4>1 DEF Text, Dot, Byte
      <4>3. ASSUME b = 1, n[1] = Dot PROVE n = l
        <5>1. Len(n) = Len(l) /\ \A i \in 1 .. Len(n) : n[i] = l[i]
          BY <2>5, <4>2, <4>3
        <5> QED BY <2>2, <4>2, <5>1, SeqEqual DEF Text
      <4> QED BY <4>1, <4>3
    <3> QED BY <2>5, <3>1, <3>2, <3>3 DEF NoSlash
  <2>10. ASSUME NEW i \in 1 .. a + (b + 1), u[i] = Slash
         PROVE  i > 1 /\ u[i - 1] # Slash /\ (u[i - 1] = Dot => i > 2 /\ u[i - 2] # Slash)
    <3>1. CASE i <= a
      <4>1. i \in 1 .. Len(j) /\ j[i] = Slash
        BY <2>5, <2>8, <2>10, <3>1
      <4>2. i > 1 /\ j[i - 1] # Slash /\ (j[i - 1] = Dot => i > 2 /\ j[i - 2] # Slash)
        BY <2>1, <2>3, <4>1 DEF Neat
      <4>3. u[i - 1] = j[i - 1] /\ (i > 2 => u[i - 2] = j[i - 2])
        BY <2>8, <3>1, <4>2
      <4> QED BY <4>2, <4>3
    <3>2. CASE i > a /\ i <= a + b
      <4>1. i - a \in 1 .. b /\ u[i] = d[i - a]
        BY <2>8, <3>2
      <4> QED BY <2>6, <2>9, <2>10, <4>1
    <3>3. CASE i = a + (b + 1)
      <4>1. i > 1 /\ i - 1 \in 1 .. a + (b + 1) /\ i - 1 > a /\ (i - 1) - a = b /\ b \in 1 .. b
        BY <2>9, <3>3
      <4>2. u[i - 1] = n[b]
        <5>1. u[i - 1] = d[b]
          BY <2>8, <4>1
        <5> QED BY <2>6, <4>1, <5>1
      <4>3. ASSUME b > 1 PROVE i > 2 /\ u[i - 2] # Slash
        <5>1. i > 2 /\ i - 2 \in 1 .. a + (b + 1) /\ i - 2 > a /\ (i - 2) - a = b - 1 /\ b - 1 \in 1 .. b
          BY <3>3, <4>3
        <5>2. u[i - 2] = d[b - 1]
          BY <2>8, <5>1
        <5> QED BY <2>6, <2>9, <5>1, <5>2
      <4> QED BY <2>9, <4>1, <4>2, <4>3
    <3> QED BY <3>1, <3>2, <3>3
  <2>11. Neat(u)
    BY <2>8, <2>10 DEF Neat
  <2>12. Append(ms, n) \in Seq(NameText)
    BY <2>1, AppendProperties
  <2> QED BY <2>3, <2>4, <2>7, <2>11, <2>12
<1>3. S = Seq(NameText)
  <2>1. S \in SUBSET Seq(NameText)
    OBVIOUS
  <2> HIDE DEF S
  <2> QED BY <1>1, <1>2, <2>1, SequenceInduction
<1> QED BY <1>3

(* What the name of a directory, or of a file, is made of.                 *)
LEMMA DirIs ==
    ASSUME NEW e \in Text, DirName(e)
    PROVE  Neat(e) /\ EndsInSlash(e)
<1>1. Neat(Joined(Names(e)))
  BY NamesAre, JoinedNeat
<1>2. Joined(Names(e)) = <<>> \/ EndsInSlash(Joined(Names(e)))
  BY NamesAre, JoinedEnds
<1> QED BY <1>1, <1>2 DEF DirName

(* The name of a file has no slash at its end, and is neat with one.       *)
LEMMA FileIs ==
    ASSUME NEW e \in Text, FileName(e)
    PROVE  /\ Neat(e) /\ Neat(Append(e, Slash)) /\ ~EndsInSlash(e) /\ e # <<>>
           /\ Names(e) # <<>>
<1>1. PICK u : u = Append(e, Slash)
  OBVIOUS
<1>2. PICK m \in Nat : m = Len(e)
  BY DEF Text
<1>3. Len(u) = m + 1 /\ u[m + 1] = Slash /\ \A i \in 1 .. m : u[i] = e[i]
  BY <1>1, <1>2 DEF Text, Slash, Byte
<1>4. Neat(u)
  BY <1>1, NamesAre, JoinedNeat DEF FileName
<1>5. m > 0 /\ u[m] # Slash
  <2>1. m + 1 \in 1 .. Len(u) /\ (m + 1) - 1 = m
    BY <1>3
  <2> QED BY <1>3, <1>4, <2>1 DEF Neat
<1>6. Neat(e)
  <2>1. ASSUME NEW i \in 1 .. m, e[i] = Slash
        PROVE  i > 1 /\ e[i - 1] # Slash /\ (e[i - 1] = Dot => i > 2 /\ e[i - 2] # Slash)
    <3>1. u[i] = Slash /\ i \in 1 .. Len(u)
      BY <1>3, <2>1
    <3>2. i > 1 /\ u[i - 1] # Slash /\ (u[i - 1] = Dot => i > 2 /\ u[i - 2] # Slash)
      BY <1>4, <3>1 DEF Neat
    <3>3. u[i - 1] = e[i - 1] /\ (i > 2 => u[i - 2] = e[i - 2])
      BY <1>3, <3>2
    <3> QED BY <3>2, <3>3
  <2> QED BY <1>2, <2>1 DEF Neat
<1>7. ~EndsInSlash(e)
  <2>1. m \in 1 .. m
    BY <1>5
  <2>2. u[m] = e[m]
    BY <1>3, <2>1
  <2> QED BY <1>2, <1>5, <2>2 DEF EndsInSlash
<1>8. Names(e) # <<>>
  <2>1. u # <<>>
    BY <1>3, EmptySeq
  <2> QED BY <1>1, <2>1, JoinedNone DEF FileName
<1>9. e # <<>>
  BY <1>2, <1>5, EmptySeq
<1> QED BY <1>1, <1>4, <1>6, <1>7, <1>8, <1>9

(* A proper name is a neat text.                                           *)
LEMMA ProperIs ==
    ASSUME NEW e, ProperName(e)
    PROVE  e \in Text /\ e # <<>> /\ Neat(e)
BY DirIs, FileIs DEF ProperName, DirName

(* A name does not end in two slashes. *)
LEMMA OneSlash ==
    ASSUME NEW r \in Text, r = <<>> \/ EndsInSlash(r)
    PROVE  ~Neat(Append(r, Slash))
<1>1. PICK m \in Nat : m = Len(r)
  BY DEF Text
<1>2. PICK u : u = Append(r, Slash)
  OBVIOUS
<1>3. Len(u) = m + 1 /\ u[m + 1] = Slash /\ \A i \in 1 .. m : u[i] = r[i]
  BY <1>1, <1>2 DEF Text, Slash, Byte
<1>4. CASE r = <<>>
  BY <1>1, <1>2, <1>3, <1>4, EmptySeq DEF Neat
<1>5. CASE EndsInSlash(r)
  <2>1. m > 0 /\ r[m] = Slash
    BY <1>1, <1>5, EmptySeq DEF EndsInSlash, Text
  <2>2. u[m] = Slash /\ m + 1 \in 1 .. Len(u) /\ (m + 1) - 1 = m
    BY <1>3, <2>1
  <2> QED BY <1>2, <1>3, <2>2 DEF Neat
<1> QED BY <1>4, <1>5

-----------------------------------------------------------------------------
(* What the file systems make of paths.                                    *)

(* What is behind the last slash says what a path asks for.                *)
LEMMA AsksIs ==
    ASSUME NEW p \in Text, p = <<>> \/ EndsInSlash(p), NEW n \in Text, NoSlash(n)
    PROVE  AsksDirectory(p \o n) <=> n \in {<<>>, <<Dot>>}
<1>1. Slash \in Byte
  BY DEF Slash, Byte
<1>2. \A i \in 1 .. Len(n) : n[i] # Slash
  BY DEF NoSlash
<1>3. Pieces(Slash, n, {}) = <<n>>
  BY <1>1, <1>2, PiecesOne
<1>4. ASSUME NEW ps \in Seq(Text) PROVE Last(ps \o <<n>>) = n
  <2>1. PICK q : q = Append(ps, n)
    OBVIOUS
  <2>2. Len(q) = Len(ps) + 1 /\ q[Len(ps) + 1] = n
    BY <2>1, AppendProperties
  <2> QED BY <2>1, <2>2, AppendIsConcat DEF Last
<1>5. CASE p = <<>>
  <2>1. p \o n = n
    BY <1>5, ConcatEmptySeq DEF Text
  <2>2. Last(<<n>>) = n
    BY DEF Last
  <2>3. Last(Pieces(Slash, p \o n, {})) = n
    BY <1>3, <2>1, <2>2
  <2> QED BY <2>3 DEF AsksDirectory
<1>6. CASE EndsInSlash(p)
  <2>1. PICK m \in Nat : Len(p) = m + 1 /\ p[m + 1] = Slash
    <3>1. Len(p) \in Nat \ {0} /\ p[Len(p)] = Slash
      BY <1>6, EmptySeq DEF EndsInSlash, Text
    <3>2. Len(p) - 1 \in Nat /\ Len(p) = (Len(p) - 1) + 1
      BY <3>1
    <3> QED BY <3>1, <3>2
  <2>2. PICK r \in Text : r = SubSeq(p, 1, m) /\ Len(r) = m /\ \A i \in 1 .. m : r[i] = p[i]
    <3>1. PICK r : r = SubSeq(p, 1, m)
      OBVIOUS
    <3>2. r \in Text /\ Len(r) = m /\ \A i \in 1 .. m : r[i] = p[i]
      BY <2>1, <3>1 DEF Text
    <3> QED BY <3>1, <3>2
  <2>3. PICK k \in Nat : k = Len(n)
    BY DEF Text
  <2>4. PICK u \in Text : u = p \o n
    BY Glued
  <2>5. Len(u) = (m + 1) + k
        /\ \A i \in 1 .. (m + 1) + k : u[i] = IF i <= m + 1 THEN p[i] ELSE n[i - (m + 1)]
    <3>1. /\ Len(p \o n) = Len(p) + Len(n)
          /\ \A i \in 1 .. Len(p) + Len(n) : (p \o n)[i] = IF i <= Len(p) THEN p[i] ELSE n[i - Len(p)]
      BY Glued
    <3> QED BY <2>1, <2>3, <2>4, <3>1
  <2>6. Parted(u, r, Slash, n)
    <3>1. Len(u) = Len(r) + 1 + Len(n) /\ u[Len(r) + 1] = Slash
      BY <2>1, <2>2, <2>3, <2>5
    <3>2. ASSUME NEW i \in 1 .. m PROVE u[i] = r[i]
      BY <2>2, <2>5
    <3>3. ASSUME NEW i \in 1 .. k PROVE u[m + 1 + i] = n[i]
      <4>1. m + 1 + i \in 1 .. (m + 1) + k /\ ~(m + 1 + i <= m + 1) /\ (m + 1 + i) - (m + 1) = i
        OBVIOUS
      <4> QED BY <2>5, <4>1
    <3> QED BY <2>2, <2>3, <3>1, <3>2, <3>3 DEF Parted
  <2>7. Pieces(Slash, u, {}) = Pieces(Slash, r, {}) \o <<n>>
    BY <1>1, <1>3, <2>6, PiecesJoin
  <2>8. Last(Pieces(Slash, u, {})) = n
    BY <1>4, <2>7, PiecesSeq
  <2> QED BY <2>4, <2>8 DEF AsksDirectory
<1> QED BY <1>5, <1>6

(* A path with a slash at its end is read as a directory, and a name       *)
(* behind it as what is in that.                                           *)
LEMMA ResolvedDir ==
    ASSUME NEW p \in Text, p = <<>> \/ EndsInSlash(p)
    PROVE  Resolved(p) = Joined(Names(p))
<1>1. PICK e \in Text : e = <<>> /\ NoSlash(e)
  <2>1. <<>> \in Text /\ Len(<<>>) = 0
    BY EmptySeq DEF Text
  <2> QED BY <2>1 DEF NoSlash
<1>2. p \o e = p
  BY <1>1, ConcatEmptySeq DEF Text
<1>3. AsksDirectory(p \o e)
  BY <1>1, AsksIs
<1> QED BY <1>2, <1>3 DEF Resolved

(* A name behind a path with a slash at its end is behind what that is     *)
(* resolved to.                                                            *)
LEMMA ResolvedBehind ==
    ASSUME NEW p \in Text, p = <<>> \/ EndsInSlash(p), NEW n \in NameText
    PROVE  Resolved(p \o n) = Resolved(p) \o n
<1>1. n \in Text /\ NoSlash(n) /\ n # <<>>
  BY NameIs
<1>2. PICK ns \in Seq(Text) : ns = Names(p)
  BY NamesAre
<1>3. Names(p \o n) = Append(ns, n)
  <2>1. Names(n) = <<n>>
    BY <1>1, NamesOne
  <2>2. ns \o <<n>> = Append(ns, n)
    BY <1>1, AppendIsConcat
  <2> QED BY <1>1, <1>2, <2>1, <2>2, NamesBehind
<1>4. PICK k \in Nat : k = Len(ns)
  OBVIOUS
<1>5. PICK ms : ms = Append(ns, n)
  OBVIOUS
<1>6. ms \in Seq(Text) /\ Len(ms) = k + 1 /\ ms[k + 1] = n /\ ms # <<>>
      /\ \A i \in 1 .. k : ms[i] = ns[i]
  BY <1>1, <1>4, <1>5, AppendProperties
<1>7. Front(ms) = ns
  <2>1. PICK f : f = SubSeq(ms, 1, k)
    OBVIOUS
  <2>2. f \in Seq(Text) /\ Len(f) = k /\ \A i \in 1 .. k : f[i] = ms[i]
    <3>1. ms \in Seq(Text) /\ Len(ms) = k + 1
      BY <1>6
    <3> QED BY <2>1, <3>1
  <2>3. \A i \in 1 .. k : f[i] = ns[i]
    BY <1>6, <2>2
  <2>4. f = ns
    BY <1>4, <2>2, <2>3, SeqEqual
  <2> QED BY <1>6, <2>1, <2>4 DEF Front
<1>8. Last(ms) = n
  BY <1>6 DEF Last
<1>9. ~AsksDirectory(p \o n)
  BY <1>1, AsksIs, NameIs
<1>10. Resolved(p \o n) = Joined(ns) \o n
  BY <1>3, <1>5, <1>6, <1>7, <1>8, <1>9 DEF Resolved
<1>11. Resolved(p) = Joined(ns)
  BY <1>2, ResolvedDir
<1> QED BY <1>10, <1>11

(* A proper name is read as itself. *)
LEMMA ResolvedName ==
    ASSUME NEW e, ProperName(e)
    PROVE  Resolved(e) = e
<1>1. e \in Text
  BY DEF ProperName
<1>2. CASE DirName(e)
  <2>1. EndsInSlash(e)
    BY <1>1, <1>2, DirIs
  <2>2. Resolved(e) = Joined(Names(e))
    BY <1>1, <2>1, ResolvedDir
  <2> QED BY <1>2, <2>2 DEF DirName
<1>3. CASE FileName(e)
  <2>1. Names(e) # <<>>
    BY <1>1, <1>3, FileIs
  <2>2. PICK ns \in Seq(NameText) : ns = Names(e) /\ ns # <<>>
    BY <1>1, <2>1, NamesAre
  <2>3. PICK k \in Nat : Len(ns) = k + 1
    <3>1. Len(ns) \in Nat \ {0}
      BY <2>2, EmptySeq
    <3>2. Len(ns) - 1 \in Nat /\ Len(ns) = (Len(ns) - 1) + 1
      BY <3>1
    <3> QED BY <3>2
  <2>4. PICK f, n : f = SubSeq(ns, 1, k) /\ n = ns[k + 1]
    OBVIOUS
  <2>5. f \in Seq(NameText) /\ n \in NameText /\ ns = Append(f, n)
    BY <2>3, <2>4, LastOff
  <2>6. Front(ns) = f /\ Last(ns) = n
    BY <2>3, <2>4 DEF Front, Last
  <2>8. f \in Seq(Text) /\ n \in Text
    <3>1. NameText \subseteq Text
      BY NameIs
    <3> QED BY <2>5, <3>1, SeqMonotonic
  <2>9. Append(e, Slash) = Joined(f) \o Append(n, Slash)
    <3>1. Joined(Append(f, n)) = Joined(f) \o Append(n, Slash)
      BY <2>8, JoinedAppend
    <3> QED BY <1>3, <2>2, <2>5, <3>1 DEF FileName
  <2>10. e = Joined(f) \o n
    <3>1. PICK j \in Text : j = Joined(f)
      BY <2>8, JoinedAppend
    <3>2. <<Slash>> \in Text
      BY DEF Text, Slash, Byte
    <3>3. Append(e, Slash) = e \o <<Slash>> /\ Append(n, Slash) = n \o <<Slash>>
      <4>1. Slash \in Byte
        BY DEF Slash, Byte
      <4> QED BY <1>1, <2>8, <4>1, AppendIsConcat DEF Text
    <3>4. j \o (n \o <<Slash>>) = (j \o n) \o <<Slash>>
      BY <2>8, <3>2, GluedInTurn
    <3>5. PICK v \in Text : v = j \o n
      BY <2>8, Glued
    <3>6. e \o <<Slash>> = v \o <<Slash>>
      BY <2>9, <3>1, <3>3, <3>4, <3>5
    <3>7. e = v
      BY <1>1, <3>2, <3>6, ConcatSimplifications DEF Text
    <3> QED BY <3>1, <3>5, <3>7
  <2>11. ~AsksDirectory(e)
    <3>1. PICK j \in Text : j = Joined(f) /\ (j = <<>> \/ EndsInSlash(j))
      BY <2>8, JoinedEnds
    <3>2. NoSlash(n) /\ n \notin {<<>>, <<Dot>>}
      BY <2>5, NameIs
    <3> QED BY <2>8, <2>10, <3>1, <3>2, AsksIs
  <2> QED BY <2>2, <2>6, <2>10, <2>11 DEF Resolved
<1> QED BY <1>2, <1>3 DEF ProperName

(* The loop of zip_fix_path.                                               *)
FixState == [kept : Text, erased : BOOLEAN]
Unfixed == [kept |-> <<>>, erased |-> FALSE]

(* A turn of the loop keeps what it holds a text.                          *)
LEMMA TakenState ==
    ASSUME NEW b \in FixState, NEW x \in Byte
    PROVE  Taken(b, x) \in FixState
<1>1. b.kept \in Text /\ Append(b.kept, x) \in Text
  BY DEF FixState, Text
<1> QED BY <1>1 DEF FixState, Taken

Fixing(g, p) == g = [i \in 0 .. Len(p) |-> IF i = 0 THEN Unfixed ELSE Taken(g[i - 1], p[i])]

(* The loop of zip_fix_path over the first n characters, all there are.    *)
Fixes(g, p, n) ==
    /\ g \in [0 .. n -> FixState] /\ g = [i \in 0 .. n |-> g[i]] /\ g[0] = Unfixed
    /\ \A i \in 1 .. n : g[i] = Taken(g[i - 1], p[i])

(* Fixed is its loop, and no more than its loop.                           *)
LEMMA FixLoop ==
    ASSUME NEW path, NEW p \in Text, p = Stripped(path)
    PROVE  \E g : Fixes(g, p, Len(p)) /\ Fixed(path) = g[Len(p)].kept
<1>1. PICK n \in Nat : n = Len(p) /\ \A i \in 1 .. n : p[i] \in Byte
  BY DEF Text
<1>2. PICK F : Makes(F, n, FixState)
               /\ \A i \in 1 .. n, x \in FixState : F[<<i, x>>] = Taken(x, p[i])
  <2>1. PICK F : F = [q \in (1 .. n) \X FixState |-> Taken(q[2], p[q[1]])]
    OBVIOUS
  <2>2. \A i \in 1 .. n, x \in FixState : F[<<i, x>>] = Taken(x, p[i])
    BY <2>1
  <2>3. F \in [(1 .. n) \X FixState -> FixState]
    BY <1>1, <2>1, TakenState
  <2> QED BY <2>2, <2>3, Zenon DEF Makes
<1>3. Unfixed \in FixState
  BY DEF FixState, Unfixed, Text
<1>4. PICK f : Follows(f, F, n, FixState, Unfixed)
  BY <1>2, <1>3, Recursion
<1>5. /\ f \in [0 .. n -> FixState] /\ f = [i \in 0 .. n |-> f[i]] /\ f[0] = Unfixed
      /\ \A i \in 1 .. n : f[i] = F[<<i, f[i - 1]>>]
  BY <1>4 DEF Follows
<1>6. \A i \in 1 .. n : f[i] = Taken(f[i - 1], p[i])
  <2>1. ASSUME NEW i \in 1 .. n PROVE f[i - 1] \in FixState
    BY <1>5
  <2> QED BY <1>2, <1>5, <2>1
<1>7. ASSUME NEW g
      PROVE  Fixing(g, p) <=> g = [i \in 0 .. n |-> IF i = 0 THEN Unfixed ELSE Taken(g[i - 1], p[i])]
  BY <1>1 DEF Fixing
<1>8. Fixing(f, p)
  <2>1. ASSUME NEW i \in 0 .. n
        PROVE  f[i] = IF i = 0 THEN Unfixed ELSE Taken(f[i - 1], p[i])
    <3>1. i = 0 \/ i \in 1 .. n
      OBVIOUS
    <3> QED BY <1>5, <1>6, <3>1
  <2>2. f = [i \in 0 .. n |-> IF i = 0 THEN Unfixed ELSE Taken(f[i - 1], p[i])]
    BY <1>5, <2>1
  <2> QED BY <1>7, <2>2
<1>9. PICK g : g = (CHOOSE h : Fixing(h, p)) /\ Fixed(path) = g[Len(p)].kept
  BY DEF Fixed, Fixing, Unfixed
<1>10. g = [i \in 0 .. n |-> IF i = 0 THEN Unfixed ELSE Taken(g[i - 1], p[i])]
  <2>1. Fixing(g, p)
    BY <1>8, <1>9
  <2> QED BY <1>7, <2>1
<1>11. /\ g = [i \in 0 .. n |-> g[i]] /\ g[0] = Unfixed
       /\ \A i \in 1 .. n : g[i] = Taken(g[i - 1], p[i])
  BY <1>10
<1>12. Follows(g, F, n, FixState, Unfixed)
  BY <1>2, <1>3, <1>11, Obeying
<1>13. g \in [0 .. n -> FixState]
  BY <1>12 DEF Follows
<1> QED BY <1>1, <1>9, <1>11, <1>13 DEF Fixes

(* What zip_fix_path leaves at the front is a text.                        *)
LEMMA StrippedIs ==
    ASSUME NEW p \in Text
    PROVE  Stripped(p) \in Text
<1>1. After(p, 2) \in Text
  BY DEF After, Text
<1>2. IsPrefix(<<Slash>>, p) => Tail(p) \in Text
  <2>1. IsPrefix(<<Slash>>, p) => p # <<>>
    BY EmptySeq DEF IsPrefix
  <2> QED BY <2>1 DEF Text
<1> QED BY <1>1, <1>2 DEF Stripped

(* A proper name has nothing to strip or to erase. *)
LEMMA FixedName ==
    ASSUME NEW e, ProperName(e)
    PROVE  Fixed(e) = e
<1>1. e \in Text /\ Neat(e)
  BY ProperIs
<1>2. PICK n \in Nat : n = Len(e)
  BY <1>1 DEF Text
<1>3. Stripped(e) = e
  <2>1. ASSUME NEW t, IsPrefix(t, e), t \in {<<Slash>>, <<Dot, Slash>>} PROVE FALSE
    <3>1. CASE t = <<Slash>>
      <4>1. Len(t) = 1 /\ t[1] = Slash
        BY <3>1
      <4>2. 1 <= n /\ SubSeq(t, 1, 1) = SubSeq(e, 1, 1)
        BY <1>2, <2>1, <4>1 DEF IsPrefix
      <4>3. e[1] = Slash
        <5>1. SubSeq(t, 1, 1)[1] = t[1] /\ SubSeq(e, 1, 1)[1] = e[1]
          BY <1>1, <1>2, <3>1, <4>2 DEF Text
        <5> QED BY <4>1, <4>2, <5>1
      <4> QED BY <1>1, <1>2, <4>2, <4>3 DEF Neat
    <3>2. CASE t = <<Dot, Slash>>
      <4>1. Len(t) = 2 /\ t[1] = Dot /\ t[2] = Slash
        BY <3>2
      <4>2. 2 <= n /\ SubSeq(t, 1, 2) = SubSeq(e, 1, 2)
        BY <1>2, <2>1, <4>1 DEF IsPrefix
      <4>3. e[1] = Dot /\ e[2] = Slash
        <5>1. SubSeq(t, 1, 2)[1] = t[1] /\ SubSeq(t, 1, 2)[2] = t[2]
          BY <3>2
        <5>2. SubSeq(e, 1, 2)[1] = e[1] /\ SubSeq(e, 1, 2)[2] = e[2]
          BY <1>1, <1>2, <4>2 DEF Text
        <5> QED BY <4>1, <4>2, <5>1, <5>2
      <4> QED BY <1>1, <1>2, <4>2, <4>3 DEF Neat
    <3> QED BY <2>1, <3>1, <3>2
  <2> QED BY <2>1 DEF Stripped
<1>4. PICK g : Fixes(g, e, n) /\ Fixed(e) = g[n].kept
  BY <1>1, <1>2, <1>3, FixLoop
<1>5. /\ g = [i \in 0 .. n |-> g[i]] /\ g[0] = Unfixed
      /\ \A i \in 1 .. n : g[i] = Taken(g[i - 1], e[i])
  BY <1>4 DEF Fixes
<1>6. PICK h : h = [i \in 0 .. n |-> [kept |-> SubSeq(e, 1, i), erased |-> FALSE]]
  OBVIOUS
<1>7. ASSUME NEW i \in 1 .. n, g[i - 1] = h[i - 1] PROVE g[i] = h[i]
  <2>1. i \in 0 .. n /\ i - 1 \in 0 .. n
    OBVIOUS
  <2>2. PICK k : k = SubSeq(e, 1, i - 1)
    OBVIOUS
  <2>3. h[i - 1].kept = k /\ h[i - 1].erased = FALSE
    BY <1>6, <2>1, <2>2
  <2>4. k \in Text /\ Len(k) = i - 1 /\ \A j \in 1 .. i - 1 : k[j] = e[j]
    BY <1>1, <1>2, <2>2 DEF Text
  <2>5. ~(e[i] = Slash /\ k # <<>> /\ Last(k) = Slash)
    <3>1. ASSUME e[i] = Slash, k # <<>> PROVE Last(k) # Slash
      <4>1. i > 1 /\ e[i - 1] # Slash
        BY <1>1, <1>2, <3>1 DEF Neat
      <4>2. k[i - 1] = e[i - 1]
        BY <2>4, <4>1
      <4> QED BY <2>4, <4>1, <4>2 DEF Last
    <3> QED BY <3>1
  <2>6. g[i] = [kept |-> Append(k, e[i]), erased |-> FALSE]
    <3>1. g[i] = Taken(h[i - 1], e[i])
      BY <1>5, <1>7
    <3> QED BY <2>3, <2>5, <3>1 DEF Taken
  <2>7. Append(k, e[i]) = SubSeq(e, 1, i)
    <3>1. SubSeq(e, 1, i) = k \o <<e[i]>>
      BY <1>1, <1>2, <2>2, SubSeqRecursiveSecond DEF Text
    <3>2. e[i] \in Byte
      BY <1>1, <1>2 DEF Text
    <3> QED BY <2>4, <3>1, <3>2, AppendIsConcat DEF Text
  <2> QED BY <1>6, <2>1, <2>6, <2>7
<1>8. g[0] = h[0]
  <2>1. SubSeq(e, 1, 0) = <<>>
    BY SubSeqEmpty
  <2> QED BY <1>5, <1>6, <2>1 DEF Unfixed
<1>9. g = h
  <2>1. g = [i \in 0 .. n |-> g[i]] /\ h = [i \in 0 .. n |-> h[i]]
    BY <1>5, <1>6
  <2>2. Agrees(g, h, n)
    BY <1>7, <1>8, <2>1 DEF Agrees
  <2> QED BY <2>2, Agreement
<1>10. SubSeq(e, 1, n) = e
  BY <1>1, <1>2, SubSeqFull DEF Text
<1> QED BY <1>4, <1>6, <1>9, <1>10

(* Prefixes, one character after the other.                                *)
LEMMA PrefixIs ==
    ASSUME NEW t \in Text, NEW s \in Text
    PROVE  IsPrefix(t, s) <=> Len(t) <= Len(s) /\ \A i \in 1 .. Len(t) : s[i] = t[i]
<1>1. PICK m \in Nat, n \in Nat : m = Len(t) /\ n = Len(s)
  BY DEF Text
<1>2. CASE m <= n
  <2>1. PICK a, b : a = SubSeq(t, 1, m) /\ b = SubSeq(s, 1, m)
    OBVIOUS
  <2>2. a \in Text /\ Len(a) = m /\ \A i \in 1 .. m : a[i] = t[i]
    BY <1>1, <2>1 DEF Text
  <2>3. b \in Text /\ Len(b) = m /\ \A i \in 1 .. m : b[i] = s[i]
    BY <1>1, <1>2, <2>1 DEF Text
  <2>4. a = b <=> \A i \in 1 .. m : a[i] = b[i]
    BY <2>2, <2>3, SeqEqual DEF Text
  <2> QED BY <1>1, <1>2, <2>1, <2>2, <2>3, <2>4 DEF IsPrefix
<1> QED BY <1>1, <1>2 DEF IsPrefix

(* A prefix of one character.                                              *)
LEMMA PrefixOne ==
    ASSUME NEW a \in Byte, NEW s \in Text
    PROVE  IsPrefix(<<a>>, s) <=> s # <<>> /\ s[1] = a
<1>1. PICK t : t = <<a>>
  OBVIOUS
<1>2. t \in Text /\ Len(t) = 1 /\ t[1] = a
  BY <1>1 DEF Text
<1>3. Len(s) \in Nat /\ (s # <<>> <=> Len(s) >= 1)
  BY EmptySeq DEF Text
<1>4. IsPrefix(t, s) <=> 1 <= Len(s) /\ \A i \in 1 .. 1 : s[i] = t[i]
  BY <1>2, PrefixIs
<1> QED BY <1>1, <1>2, <1>3, <1>4

(* A prefix of two characters.                                             *)
LEMMA PrefixTwo ==
    ASSUME NEW a \in Byte, NEW b \in Byte, NEW s \in Text
    PROVE  IsPrefix(<<a, b>>, s) <=> Len(s) >= 2 /\ s[1] = a /\ s[2] = b
<1>1. PICK t : t = <<a, b>>
  OBVIOUS
<1>2. t \in Text /\ Len(t) = 2 /\ t[1] = a /\ t[2] = b
  BY <1>1 DEF Text
<1>3. Len(s) \in Nat
  BY DEF Text
<1>4. IsPrefix(t, s) <=> 2 <= Len(s) /\ \A i \in 1 .. 2 : s[i] = t[i]
  BY <1>2, PrefixIs
<1>5. (\A i \in 1 .. 2 : s[i] = t[i]) <=> s[1] = t[1] /\ s[2] = t[2]
  <2>1. 1 .. 2 = {1, 2}
    OBVIOUS
  <2> QED BY <2>1
<1> QED BY <1>1, <1>2, <1>3, <1>4, <1>5

(* What comes after a place.                                               *)
LEMMA AfterIs ==
    ASSUME NEW s \in Text, NEW k \in Nat, k <= Len(s)
    PROVE  /\ After(s, k) \in Text /\ Len(After(s, k)) = Len(s) - k
           /\ \A i \in 1 .. Len(s) - k : After(s, k)[i] = s[k + i]
BY DEF After, Text

(* What comes after a place in the first of two texts put together.        *)
LEMMA AfterGlued ==
    ASSUME NEW s \in Text, NEW t \in Text, NEW k \in Nat, k <= Len(s)
    PROVE  After(s \o t, k) = After(s, k) \o t
<1>1. PICK m \in Nat, n \in Nat : m = Len(s) /\ n = Len(t)
  BY DEF Text
<1>2. PICK u : u = s \o t
  OBVIOUS
<1>3. u \in Text /\ Len(u) = m + n /\ \A i \in 1 .. m + n : u[i] = IF i <= m THEN s[i] ELSE t[i - m]
  BY <1>1, <1>2, Glued
<1>4. PICK a, b : a = After(u, k) /\ b = After(s, k)
  OBVIOUS
<1>5. a \in Text /\ Len(a) = m + n - k /\ \A i \in 1 .. m + n - k : a[i] = u[k + i]
  <2>1. k <= Len(u) /\ Len(u) = m + n
    BY <1>1, <1>3
  <2>2. /\ After(u, k) \in Text /\ Len(After(u, k)) = Len(u) - k
        /\ \A i \in 1 .. Len(u) - k : After(u, k)[i] = u[k + i]
    BY <1>3, <2>1, AfterIs
  <2> QED BY <1>4, <2>1, <2>2
<1>6. b \in Text /\ Len(b) = m - k /\ \A i \in 1 .. m - k : b[i] = s[k + i]
  BY <1>1, <1>4, AfterIs
<1>7. PICK v : v = b \o t
  OBVIOUS
<1>8. /\ v \in Text /\ Len(v) = m - k + n
      /\ \A i \in 1 .. m - k + n : v[i] = IF i <= m - k THEN b[i] ELSE t[i - (m - k)]
  <2>1. /\ v \in Text /\ Len(v) = Len(b) + Len(t)
        /\ \A i \in 1 .. Len(b) + Len(t) : v[i] = IF i <= Len(b) THEN b[i] ELSE t[i - Len(b)]
    BY <1>6, <1>7, Glued
  <2> QED BY <1>1, <1>6, <2>1
<1>9. ASSUME NEW i \in 1 .. m + n - k PROVE a[i] = v[i]
  <2>1. i \in 1 .. m - k + n /\ k + i \in 1 .. m + n
    BY <1>1
  <2>2. (k + i <= m <=> i <= m - k) /\ (k + i) - m = i - (m - k)
    BY <1>1
  <2>3. a[i] = IF k + i <= m THEN s[k + i] ELSE t[(k + i) - m]
    BY <1>3, <1>5, <2>1
  <2>4. v[i] = IF i <= m - k THEN b[i] ELSE t[i - (m - k)]
    BY <1>8, <2>1
  <2>5. i <= m - k => b[i] = s[k + i]
    BY <1>6
  <2> QED BY <2>2, <2>3, <2>4, <2>5
<1>10. Len(a) = Len(v)
  BY <1>1, <1>5, <1>8
<1>11. a = v
  BY <1>5, <1>8, <1>9, <1>10, SeqEqual DEF Text
<1> QED BY <1>2, <1>4, <1>7, <1>11

(* How many characters zip_fix_path strips. *)
Lead(s) ==
    IF Len(s) >= 2 /\ s[1] = Dot /\ s[2] = Slash THEN 2
    ELSE IF s # <<>> /\ s[1] = Slash THEN 1 ELSE 0

(* What is stripped from a path that ends in a slash is stripped from it   *)
(* with a name behind it, too.                                             *)
LEMMA StrippedLead ==
    ASSUME NEW s \in Text
    PROVE  Lead(s) \in 0 .. Len(s) /\ Stripped(s) = After(s, Lead(s))
<1>1. Dot \in Byte /\ Slash \in Byte
  BY DEF Dot, Slash, Byte
<1>2. IsPrefix(<<Dot, Slash>>, s) <=> Len(s) >= 2 /\ s[1] = Dot /\ s[2] = Slash
  BY <1>1, PrefixTwo
<1>3. IsPrefix(<<Slash>>, s) <=> s # <<>> /\ s[1] = Slash
  BY <1>1, PrefixOne
<1>4. Len(s) \in Nat /\ (s # <<>> => Len(s) >= 1)
  BY EmptySeq DEF Text
<1>5. s # <<>> => Tail(s) = After(s, 1)
  <2>1. s # <<>> => Tail(s) = SubSeq(s, 2, Len(s))
    BY DEF Text
  <2> QED BY <2>1 DEF After
<1>6. After(s, 0) = s
  <2>1. SubSeq(s, 1, Len(s)) = s
    BY SubSeqFull DEF Text
  <2> QED BY <2>1 DEF After
<1>7. CASE IsPrefix(<<Dot, Slash>>, s)
  <2>1. Lead(s) = 2 /\ Stripped(s) = After(s, 2)
    BY <1>2, <1>7 DEF Lead, Stripped
  <2> QED BY <1>2, <1>4, <1>7, <2>1
<1>8. CASE ~IsPrefix(<<Dot, Slash>>, s) /\ IsPrefix(<<Slash>>, s)
  <2>1. Lead(s) = 1 /\ Stripped(s) = Tail(s)
    BY <1>2, <1>3, <1>8 DEF Lead, Stripped
  <2> QED BY <1>3, <1>4, <1>5, <1>8, <2>1
<1>9. CASE ~IsPrefix(<<Dot, Slash>>, s) /\ ~IsPrefix(<<Slash>>, s)
  <2>1. Lead(s) = 0 /\ Stripped(s) = s
    BY <1>2, <1>3, <1>9 DEF Lead, Stripped
  <2> QED BY <1>4, <1>6, <2>1
<1> QED BY <1>7, <1>8, <1>9

(* What is stripped from a path is stripped from it with a name behind it. *)
LEMMA StrippedBehind ==
    ASSUME NEW p \in Text, EndsInSlash(p), NEW n \in Text
    PROVE  /\ Stripped(p \o n) = Stripped(p) \o n
           /\ Stripped(p) = <<>> \/ EndsInSlash(Stripped(p))
<1>1. PICK m \in Nat, k \in Nat : m = Len(p) /\ k = Len(n)
  BY DEF Text
<1>2. m > 0 /\ p[m] = Slash
  BY <1>1, EmptySeq DEF EndsInSlash, Text
<1>3. PICK u : u = p \o n
  OBVIOUS
<1>4. u \in Text /\ Len(u) = m + k /\ \A i \in 1 .. m + k : u[i] = IF i <= m THEN p[i] ELSE n[i - m]
  BY <1>1, <1>3, Glued
<1>5. u[1] = p[1] /\ (m >= 2 => u[2] = p[2]) /\ u # <<>> /\ p # <<>>
  BY <1>1, <1>2, <1>4, EmptySeq
<1>6. m < 2 => p[1] = Slash
  BY <1>2
<1>7. Slash # Dot
  BY DEF Slash, Dot
<1>8. Lead(u) = Lead(p)
  BY <1>1, <1>4, <1>5, <1>6, <1>7 DEF Lead
<1>9. PICK l \in 0 .. m : l = Lead(p) /\ Stripped(p) = After(p, l) /\ Stripped(u) = After(u, l)
  BY <1>1, <1>4, <1>8, StrippedLead
<1>10. After(u, l) = After(p, l) \o n
  BY <1>1, <1>3, AfterGlued
<1>11. PICK q : q = After(p, l)
  OBVIOUS
<1>12. q \in Text /\ Len(q) = m - l /\ \A i \in 1 .. m - l : q[i] = p[l + i]
  <2>1. l \in Nat /\ l <= Len(p)
    BY <1>1
  <2>2. /\ After(p, l) \in Text /\ Len(After(p, l)) = Len(p) - l
        /\ \A i \in 1 .. Len(p) - l : After(p, l)[i] = p[l + i]
    BY <2>1, AfterIs
  <2> QED BY <1>1, <1>11, <2>2
<1>13. q = <<>> \/ EndsInSlash(q)
  <2>1. ASSUME q # <<>> PROVE q[m - l] = Slash
    <3>1. m - l > 0
      BY <1>12, <2>1, EmptySeq DEF Text
    <3>2. m - l \in 1 .. m - l /\ l + (m - l) = m
      BY <3>1
    <3>3. q[m - l] = p[m]
      BY <1>12, <3>2
    <3> QED BY <1>2, <3>3
  <2> QED BY <1>12, <2>1 DEF EndsInSlash
<1> QED BY <1>3, <1>9, <1>10, <1>11, <1>13

(* The loop of zip_fix_path ends with a slash where the path does, and a   *)
(* name behind it is kept as it is.                                        *)
LEMMA FixedEnds ==
    ASSUME NEW p \in Text, EndsInSlash(p)
    PROVE  Fixed(p) \in Text /\ (Fixed(p) = <<>> \/ EndsInSlash(Fixed(p)))
<1>0. p = p \o <<>> /\ <<>> \in Text
  BY ConcatEmptySeq DEF Text
<1>1. PICK q \in Text : q = Stripped(p)
  BY StrippedIs
<1>2. q = <<>> \/ EndsInSlash(q)
  <2>1. Stripped(p) = <<>> \/ EndsInSlash(Stripped(p))
    BY <1>0, StrippedBehind
  <2> QED BY <1>1, <2>1
<1>3. PICK m \in Nat : m = Len(q)
  BY DEF Text
<1>4. PICK g : Fixes(g, q, m) /\ Fixed(p) = g[m].kept
  BY <1>1, <1>3, FixLoop
<1>5. /\ g \in [0 .. m -> FixState] /\ g[0] = Unfixed
      /\ \A i \in 1 .. m : g[i] = Taken(g[i - 1], q[i])
  BY <1>4 DEF Fixes
<1>6. Fixed(p) \in Text
  <2>1. g[m] \in FixState
    BY <1>5
  <2> QED BY <1>4, <2>1 DEF FixState
<1>7. CASE m = 0
  <2>1. g[m].kept = <<>>
    BY <1>5, <1>7 DEF Unfixed
  <2> QED BY <1>4, <1>6, <2>1
<1>8. CASE m # 0
  <2>1. m \in 1 .. m /\ m - 1 \in 0 .. m
    BY <1>8
  <2>2. q[m] = Slash
    BY <1>2, <1>3, <1>8, EmptySeq DEF EndsInSlash
  <2>3. PICK b \in FixState : b = g[m - 1]
    BY <1>5, <2>1
  <2>4. g[m] = Taken(b, Slash)
    BY <1>5, <2>1, <2>2, <2>3
  <2>5. PICK k \in Text : k = b.kept
    BY <2>3 DEF FixState
  <2>6. CASE ~b.erased /\ Slash = Slash /\ k # <<>> /\ Last(k) = Slash
    <3>1. g[m].kept = k
      BY <2>4, <2>5, <2>6 DEF Taken
    <3> QED BY <1>4, <2>5, <2>6, <3>1 DEF EndsInSlash, Last
  <2>7. CASE ~(~b.erased /\ Slash = Slash /\ k # <<>> /\ Last(k) = Slash)
    <3>1. g[m].kept = Append(k, Slash)
      BY <2>4, <2>5, <2>7 DEF Taken
    <3>2. PICK a : a = Append(k, Slash)
      OBVIOUS
    <3>3. Slash \in Byte
      BY DEF Slash, Byte
    <3>4. Len(a) = Len(k) + 1 /\ Len(k) \in Nat /\ a[Len(k) + 1] = Slash /\ a \in Text
      BY <3>2, <3>3, AppendProperties DEF Text
    <3>5. a # <<>>
      BY <3>4, EmptySeq
    <3> QED BY <1>4, <3>1, <3>2, <3>4, <3>5 DEF EndsInSlash
  <2> QED BY <2>6, <2>7
<1> QED BY <1>6, <1>7, <1>8

(* A name behind a path that ends in a slash is behind what zip_fix_path   *)
(* makes of it.                                                            *)
LEMMA FixedBehind ==
    ASSUME NEW p \in Text, EndsInSlash(p), NEW n \in Text, NoSlash(n)
    PROVE  Fixed(p \o n) = Fixed(p) \o n
<1>1. PICK q \in Text : q = Stripped(p)
  BY StrippedIs
<1>2. PICK m \in Nat, k \in Nat : m = Len(q) /\ k = Len(n)
  BY DEF Text
<1>3. PICK u : u = q \o n
  OBVIOUS
<1>4. u \in Text /\ Len(u) = m + k /\ \A i \in 1 .. m + k : u[i] = IF i <= m THEN q[i] ELSE n[i - m]
  BY <1>2, <1>3, Glued
<1>5. Stripped(p \o n) = u
  BY <1>1, <1>3, StrippedBehind
<1>6. PICK g : Fixes(g, q, m) /\ Fixed(p) = g[m].kept
  BY <1>1, <1>2, FixLoop
<1>7. PICK h : Fixes(h, u, m + k) /\ Fixed(p \o n) = h[m + k].kept
  <2>1. \E h : Fixes(h, u, Len(u)) /\ Fixed(p \o n) = h[Len(u)].kept
    BY <1>4, <1>5, FixLoop
  <2> QED BY <1>4, <2>1
<1>8. /\ g \in [0 .. m -> FixState] /\ g = [i \in 0 .. m |-> g[i]] /\ g[0] = Unfixed
      /\ \A i \in 1 .. m : g[i] = Taken(g[i - 1], q[i])
  BY <1>6 DEF Fixes
<1>9. /\ h \in [0 .. m + k -> FixState] /\ h[0] = Unfixed
      /\ \A i \in 1 .. m + k : h[i] = Taken(h[i - 1], u[i])
  BY <1>7 DEF Fixes
<1>10. PICK e : e = [i \in 0 .. m |-> h[i]]
  OBVIOUS
<1>11. e = g
  <2>1. e = [i \in 0 .. m |-> e[i]]
    BY <1>10
  <2>2. e[0] = g[0]
    BY <1>8, <1>9, <1>10
  <2>3. ASSUME NEW i \in 1 .. m, e[i - 1] = g[i - 1] PROVE e[i] = g[i]
    <3>1. i \in 1 .. m + k /\ i \in 0 .. m /\ i - 1 \in 0 .. m
      BY <1>2
    <3>2. u[i] = q[i]
      BY <1>4, <3>1
    <3>3. h[i] = Taken(h[i - 1], q[i])
      BY <1>9, <3>1, <3>2
    <3>4. e[i] = h[i] /\ e[i - 1] = h[i - 1]
      BY <1>10, <3>1
    <3> QED BY <1>8, <2>3, <3>3, <3>4
  <2>4. Agrees(e, g, m)
    BY <1>8, <2>1, <2>2, <2>3 DEF Agrees
  <2> QED BY <2>4, Agreement
<1>12. PICK r \in Text : r = Fixed(p) /\ h[m].kept = r
  <2>1. g[m] \in FixState /\ h[m] = g[m]
    BY <1>8, <1>10, <1>11
  <2> QED BY <1>6, <2>1 DEF FixState
<1> DEFINE S == {j \in Nat : j <= k => h[m + j].kept = r \o SubSeq(n, 1, j)}
<1>13. 0 \in S
  <2>1. SubSeq(n, 1, 0) = <<>>
    BY SubSeqEmpty
  <2>2. r \o <<>> = r
    BY ConcatEmptySeq DEF Text
  <2>3. m + 0 = m
    BY <1>2
  <2> QED BY <1>12, <2>1, <2>2, <2>3
<1>14. ASSUME NEW j \in S PROVE j + 1 \in S
  <2>1. j \in Nat /\ j + 1 \in Nat
    OBVIOUS
  <2> SUFFICES ASSUME j + 1 <= k PROVE h[m + (j + 1)].kept = r \o SubSeq(n, 1, j + 1)
      BY <2>1
  <2>2. PICK x : x = n[j + 1]
    OBVIOUS
  <2>3. x \in Byte /\ x # Slash /\ j + 1 \in 1 .. k
    BY <1>2, <2>1, <2>2 DEF NoSlash, Text
  <2>4. u[m + (j + 1)] = x
    <3>1. m + (j + 1) \in 1 .. m + k /\ ~(m + (j + 1) <= m) /\ (m + (j + 1)) - m = j + 1
      BY <1>2, <2>1, <2>3
    <3> QED BY <1>4, <2>2, <3>1
  <2>5. h[m + (j + 1)] = Taken(h[m + j], x)
    <3>1. m + (j + 1) \in 1 .. m + k /\ (m + (j + 1)) - 1 = m + j
      BY <1>2, <2>1, <2>3
    <3> QED BY <1>9, <2>4, <3>1
  <2>6. h[m + (j + 1)].kept = Append(h[m + j].kept, x)
    BY <2>3, <2>5 DEF Taken
  <2>7. PICK a : a = SubSeq(n, 1, j)
    OBVIOUS
  <2>8. a \in Text /\ SubSeq(n, 1, j + 1) = Append(a, x)
    <3>1. a \in Text /\ SubSeq(n, 1, j + 1) = a \o <<x>>
      BY <1>2, <2>1, <2>2, <2>3, <2>7, SubSeqRecursiveSecond DEF Text
    <3> QED BY <2>3, <3>1, AppendIsConcat DEF Text
  <2>9. h[m + j].kept = r \o a
    BY <2>1, <2>3, <2>7
  <2>10. Append(r \o a, x) = r \o Append(a, x)
    <3>1. <<x>> \in Text /\ r \o a \in Text
      BY <2>3, <2>8, Glued DEF Text
    <3>2. Append(r \o a, x) = (r \o a) \o <<x>> /\ Append(a, x) = a \o <<x>>
      BY <2>3, <2>8, <3>1, AppendIsConcat DEF Text
    <3>3. (r \o a) \o <<x>> = r \o (a \o <<x>>)
      <4>1. PICK y \in Text : y = <<x>>
        BY <3>1
      <4>2. (r \o a) \o y = r \o (a \o y)
        BY <1>12, <2>8, <4>1, GluedInTurn
      <4> QED BY <4>1, <4>2
    <3> QED BY <3>2, <3>3
  <2> QED BY <2>6, <2>8, <2>9, <2>10
<1>15. S = Nat
  <2>1. S \in SUBSET Nat
    OBVIOUS
  <2> HIDE DEF S
  <2> QED BY <1>13, <1>14, <2>1, SetInduction
<1>16. h[m + k].kept = r \o SubSeq(n, 1, k)
  <2>1. k \in S
    <3> HIDE DEF S
    <3> QED BY <1>15
  <2> QED BY <2>1
<1>17. SubSeq(n, 1, k) = n
  BY <1>2, SubSeqFull DEF Text
<1> QED BY <1>7, <1>12, <1>16, <1>17

(* All names are proper, as the file systems give them.                    *)
ProperFiles(fs) == \A e \in DOMAIN fs.contents : ProperName(e)

(* A proper name is read as itself.                                        *)
LEMMA SaidName ==
    ASSUME NEW fs, NEW e, ProperName(e)
    PROVE  Said(fs, e) = e
BY FixedName, ResolvedName DEF Said

(* Either file system reads a name behind a path of a directory as that    *)
(* name behind what it reads the path as.                                  *)
LEMMA SaidBehind ==
    ASSUME NEW fs, NEW p \in Text, EndsInSlash(p), NEW n \in NameText
    PROVE  Said(fs, p \o n) = Said(fs, p) \o n
<1>1. n \in Text /\ NoSlash(n)
  BY NameIs
<1>2. Fixed(p \o n) = Fixed(p) \o n
  BY <1>1, FixedBehind
<1>3. Resolved(p \o n) = Resolved(p) \o n
  BY ResolvedBehind
<1> QED BY <1>2, <1>3 DEF Said

(* A path that ends in a slash is read as one that does, or as nothing.    *)
LEMMA SaidEnds ==
    ASSUME NEW fs, NEW p \in Text, EndsInSlash(p)
    PROVE  Said(fs, p) \in Text /\ (Said(fs, p) = <<>> \/ EndsInSlash(Said(fs, p)))
<1>1. Fixed(p) \in Text /\ (Fixed(p) = <<>> \/ EndsInSlash(Fixed(p)))
  BY FixedEnds
<1>2. Resolved(p) = Joined(Names(p))
  BY ResolvedDir
<1>3. Joined(Names(p)) \in Text /\ (Joined(Names(p)) = <<>> \/ EndsInSlash(Joined(Names(p))))
  BY NamesAre, JoinedEnds
<1> QED BY <1>1, <1>2, <1>3 DEF Said

(* A path that ends in a slash can only be found as it is read.            *)
LEMMA DirNamed ==
    ASSUME NEW fs, ProperFiles(fs), NEW p \in Text, EndsInSlash(p), Exists(fs, p)
    PROVE  /\ NameOf(fs, p) = Said(fs, p) /\ Said(fs, p) \in DOMAIN fs.contents
           /\ Said(fs, p) \in Text /\ EndsInSlash(Said(fs, p))
<1>1. PICK r \in Text : r = Said(fs, p) /\ (r = <<>> \/ EndsInSlash(r))
  BY SaidEnds
<1>2. Append(r, Slash) \notin DOMAIN fs.contents
  <2>1. ~Neat(Append(r, Slash))
    BY <1>1, OneSlash
  <2> QED BY <2>1, ProperIs DEF ProperFiles
<1>3. NameOf(fs, p) = AsName(fs, r)
  BY <1>1, NameSaid
<1>4. r \in DOMAIN fs.contents /\ NameOf(fs, p) = r
  BY <1>2, <1>3 DEF Exists, AsName
<1>5. r # <<>>
  BY <1>4, ProperIs DEF ProperFiles
<1> QED BY <1>1, <1>4, <1>5

(* A name is found as itself.                                              *)
LEMMA NameFound ==
    ASSUME NEW fs, ProperFiles(fs), NEW e \in DOMAIN fs.contents
    PROVE  NameOf(fs, e) = e /\ Exists(fs, e)
<1>1. Said(fs, e) = e
  BY SaidName DEF ProperFiles
<1>2. NameOf(fs, e) = e
  BY <1>1, NameSaid DEF AsName
<1>3. e # Nothing
  <2>1. e \in Text
    BY ProperIs DEF ProperFiles
  <2>2. Len(e) = 1 => e[1] \in Byte
    BY <2>1 DEF Text
  <2>3. Len(Nothing) = 1 /\ Nothing[1] \notin Byte
    BY DEF Nothing, Wrong, Byte
  <2> QED BY <2>2, <2>3
<1> QED BY <1>2, <1>3 DEF Exists

(* An entry of a directory is found by its name in the listing, behind a   *)
(* path of the directory.                                                  *)
LEMMA EntryFound ==
    ASSUME NEW fs, ProperFiles(fs), NEW p \in Text, EndsInSlash(p), NEW n \in NameText,
           NEW e \in DOMAIN fs.contents,
           e = Said(fs, p) \o n \/ e = Append(Said(fs, p) \o n, Slash)
    PROVE  /\ Exists(fs, p \o n) /\ NameOf(fs, p \o n) \in DOMAIN fs.contents
           /\ NameOf(fs, p \o n) \in {Said(fs, p) \o n, Append(Said(fs, p) \o n, Slash)}
<1>1. PICK r : r = Said(fs, p) \o n
  OBVIOUS
<1>2. NameOf(fs, p \o n) = AsName(fs, r)
  BY <1>1, NameSaid, SaidBehind
<1>3. NameOf(fs, p \o n) \in DOMAIN fs.contents /\ NameOf(fs, p \o n) \in {r, Append(r, Slash)}
  BY <1>1, <1>2 DEF AsName
<1>4. NameOf(fs, p \o n) # Nothing
  BY <1>3, NameFound DEF Exists
<1> QED BY <1>1, <1>3, <1>4 DEF Exists

(* A least number.                                                         *)
LEMMA Least ==
    ASSUME NEW S \in SUBSET Nat, S # {}
    PROVE  \E m \in S : \A k \in S : m <= k
<1> DEFINE R == {ss \in Nat \X Nat : ss[1] < ss[2]}
<1>1. IsWellFoundedOn(R, Nat)
  BY NatLessThanWellFounded DEF OpToRel
<1> HIDE DEF R
<1>2. PICK x \in S : \A y \in S : ~(<<y, x>> \in R)
  BY <1>1, WFMin
<1>3. ASSUME NEW y \in S PROVE x <= y
  <2>1. x \in Nat /\ y \in Nat /\ ~(y < x)
    BY <1>2 DEF R
  <2> QED BY <2>1
<1> QED BY <1>2, <1>3

(* The first place of a character, or the place behind the end.            *)
LEMMA FindIs ==
    ASSUME NEW s \in Text, NEW c, NEW i \in Nat \ {0}, i <= Len(s) + 1
    PROVE  /\ Find(c, s, i) \in i .. Len(s) + 1
           /\ Find(c, s, i) <= Len(s) => s[Find(c, s, i)] = c
           /\ \A j \in i .. Find(c, s, i) - 1 : s[j] # c
<1>1. PICK n \in Nat : n = Len(s)
  BY DEF Text
<1>2. CASE \E j \in i .. n : s[j] = c
  <2> DEFINE S == {j \in i .. n : s[j] = c}
  <2>1. S \in SUBSET Nat /\ S # {}
    BY <1>2
  <2>2. PICK m \in S : \A k \in S : m <= k
    <3> HIDE DEF S
    <3> QED BY <2>1, Least
  <2>3. m \in i .. n /\ s[m] = c
    OBVIOUS
  <2>4. ASSUME NEW j \in i .. m - 1 PROVE s[j] # c
    <3>1. j \in i .. n /\ ~(m <= j)
      BY <2>3
    <3> QED BY <2>2, <3>1
  <2>5. Find(c, s, i) = m
    <3>1. m \in Nat /\ i \in Nat /\ i <= m /\ m <= Len(s)
      BY <1>1, <2>3
    <3> QED BY <2>3, <2>4, <3>1, FindAt
  <2> QED BY <1>1, <2>3, <2>4, <2>5
<1>3. CASE ~\E j \in i .. n : s[j] = c
  <2>1. Find(c, s, i) = n + 1
    BY <1>1, <1>3 DEF Find
  <2> QED BY <1>1, <1>3, <2>1
<1> QED BY <1>2, <1>3

(* A text is what comes before a place and what comes after.               *)
LEMMA CutInTwo ==
    ASSUME NEW s \in Text, NEW k \in Nat, k <= Len(s)
    PROVE  s = SubSeq(s, 1, k) \o After(s, k) /\ SubSeq(s, 1, k) \in Text
<1>1. PICK n \in Nat : n = Len(s)
  BY DEF Text
<1>2. PICK a, b : a = SubSeq(s, 1, k) /\ b = After(s, k)
  OBVIOUS
<1>3. a \in Text /\ Len(a) = k /\ \A i \in 1 .. k : a[i] = s[i]
  BY <1>1, <1>2 DEF Text
<1>4. b \in Text /\ Len(b) = n - k /\ \A i \in 1 .. n - k : b[i] = s[k + i]
  <2>1. /\ After(s, k) \in Text /\ Len(After(s, k)) = Len(s) - k
        /\ \A i \in 1 .. Len(s) - k : After(s, k)[i] = s[k + i]
    BY AfterIs
  <2> QED BY <1>1, <1>2, <2>1
<1>5. PICK v : v = a \o b
  OBVIOUS
<1>6. v \in Text /\ Len(v) = n /\ \A i \in 1 .. n : v[i] = IF i <= k THEN a[i] ELSE b[i - k]
  <2>1. /\ v \in Text /\ Len(v) = Len(a) + Len(b)
        /\ \A i \in 1 .. Len(a) + Len(b) : v[i] = IF i <= Len(a) THEN a[i] ELSE b[i - Len(a)]
    BY <1>3, <1>4, <1>5, Glued
  <2>2. Len(a) + Len(b) = n
    BY <1>1, <1>3, <1>4
  <2> QED BY <1>3, <2>1, <2>2
<1>7. ASSUME NEW i \in 1 .. n PROVE v[i] = s[i]
  <2>1. CASE i <= k
    <3>1. i \in 1 .. k
      BY <2>1
    <3> QED BY <1>3, <1>6, <2>1, <3>1
  <2>2. CASE ~(i <= k)
    <3>1. i - k \in 1 .. n - k /\ k + (i - k) = i
      BY <2>2
    <3> QED BY <1>4, <1>6, <2>2, <3>1
  <2> QED BY <2>1, <2>2
<1>8. s = v
  BY <1>1, <1>6, <1>7, SeqEqual DEF Text
<1> QED BY <1>2, <1>3, <1>5, <1>8

(* A text that is not empty has a last place.                              *)
LEMMA LastAt ==
    ASSUME NEW s \in Text, s # <<>>
    PROVE  \E m \in Nat : Len(s) = m + 1
<1>1. Len(s) \in Nat \ {0}
  BY EmptySeq DEF Text
<1>2. Len(s) - 1 \in Nat /\ Len(s) = (Len(s) - 1) + 1
  BY <1>1
<1> QED BY <1>2

(* The entries of a directory: its name, and behind it the name in the     *)
(* listing and, for a directory, a slash.                                  *)
LEMMA EntryListed ==
    ASSUME NEW r \in Text, EndsInSlash(r), NEW e, ProperName(e), IsEntry(r, e)
    PROVE  /\ ShortName(r, e) \in NameText
           /\ e = r \o ShortName(r, e) \/ e = Append(r \o ShortName(r, e), Slash)
<1>0. e \in Text /\ Neat(e)
  BY ProperIs
<1>1. PICK k \in Nat : Len(r) = k + 1
  BY LastAt DEF EndsInSlash
<1>2. PICK x : x = After(e, Len(r))
  OBVIOUS
<1>3. k + 1 <= Len(e) /\ SubSeq(e, 1, k + 1) = r
  <2>1. SubSeq(r, 1, Len(r)) = r
    BY SubSeqFull DEF Text
  <2> QED BY <1>1, <2>1 DEF IsEntry, IsStrictPrefix, IsPrefix
<1>4. e = r \o x /\ x \in Text
  <2>1. Len(r) \in Nat /\ Len(r) <= Len(e)
    BY <1>1, <1>3
  <2>2. e = SubSeq(e, 1, Len(r)) \o x
    BY <1>0, <1>2, <2>1, CutInTwo
  <2>3. x \in Text
    BY <1>0, <1>2, <2>1, AfterIs
  <2> QED BY <1>1, <1>3, <2>2, <2>3
<1>5. x # <<>>
  <2>1. x = <<>> => e = r
    BY <1>4, ConcatEmptySeq DEF Text
  <2> QED BY <2>1 DEF IsEntry, IsStrictPrefix
<1>6. PICK m \in Nat : Len(x) = m + 1
  BY <1>4, <1>5, LastAt
<1>7. /\ Len(e) = (k + 1) + (m + 1)
      /\ \A i \in 1 .. k + 1 : e[i] = r[i]
      /\ \A i \in 1 .. m + 1 : e[(k + 1) + i] = x[i]
  <2>1. /\ Len(e) = Len(r) + Len(x)
        /\ \A i \in 1 .. Len(r) + Len(x) : e[i] = IF i <= Len(r) THEN r[i] ELSE x[i - Len(r)]
    BY <1>4, Glued
  <2>2. ASSUME NEW i \in 1 .. k + 1 PROVE e[i] = r[i]
    BY <1>1, <1>6, <2>1
  <2>3. ASSUME NEW i \in 1 .. m + 1 PROVE e[(k + 1) + i] = x[i]
    <3>1. (k + 1) + i \in 1 .. (k + 1) + (m + 1) /\ ~((k + 1) + i <= k + 1)
          /\ ((k + 1) + i) - (k + 1) = i
      OBVIOUS
    <3> QED BY <1>1, <1>6, <2>1, <3>1
  <2> QED BY <1>1, <1>6, <2>1, <2>2, <2>3
<1>8. \A j \in 1 .. m : x[j] # Slash
  <2>1. Find(Slash, x, 1) >= m + 1
    <3>1. Find(Slash, x, 1) >= Len(e) - Len(r)
      BY <1>2 DEF IsEntry
    <3> QED BY <1>1, <1>7, <3>1
  <2>2. /\ Find(Slash, x, 1) \in 1 .. Len(x) + 1
        /\ \A j \in 1 .. Find(Slash, x, 1) - 1 : x[j] # Slash
    <3>1. 1 \in Nat \ {0} /\ 1 <= Len(x) + 1
      BY <1>6
    <3> QED BY <1>4, <3>1, FindIs
  <2>3. 1 .. m \subseteq 1 .. Find(Slash, x, 1) - 1
    BY <1>6, <2>1, <2>2
  <2> QED BY <2>2, <2>3
<1>9. r[k + 1] = Slash /\ e[k + 1] = Slash
  <2>1. k + 1 \in 1 .. k + 1
    OBVIOUS
  <2> QED BY <1>1, <1>7, <2>1 DEF EndsInSlash
<1>10. Slash # Dot /\ Slash \in Byte
  BY DEF Slash, Dot, Byte
<1>11. CASE x[m + 1] = Slash
  <2>1. PICK n : n = SubSeq(x, 1, m)
    OBVIOUS
  <2>2. n \in Text /\ Len(n) = m /\ \A i \in 1 .. m : n[i] = x[i]
    BY <1>4, <1>6, <2>1 DEF Text
  <2>3. ShortName(r, e) = n
    <3>1. Last(x) = Slash /\ Front(x) = n
      BY <1>6, <1>11, <2>1 DEF Front, Last
    <3> QED BY <1>2, <3>1 DEF ShortName
  <2>4. e = Append(r \o n, Slash)
    <3>1. Append(n, Slash) = x
      BY <1>4, <1>6, <1>11, <2>1, LastOff DEF Text
    <3>2. x = n \o <<Slash>>
      BY <1>10, <2>2, <3>1, AppendIsConcat DEF Text
    <3>3. PICK y \in Text : y = <<Slash>>
      <4>1. <<Slash>> \in Text
        BY <1>10 DEF Text
      <4> QED BY <4>1
    <3>4. r \o (n \o y) = (r \o n) \o y
      BY <2>2, <3>3, GluedInTurn
    <3>5. r \o n \in Text
      BY <2>2, Glued
    <3>6. Append(r \o n, Slash) = (r \o n) \o <<Slash>>
      BY <1>10, <3>5, AppendIsConcat DEF Text
    <3> QED BY <1>4, <3>2, <3>3, <3>4, <3>6
  <2>5. NoSlash(n)
    BY <1>8, <2>2 DEF NoSlash
  <2>6. (k + 1) + (m + 1) \in 1 .. Len(e) /\ e[(k + 1) + (m + 1)] = Slash
    <3>1. m + 1 \in 1 .. m + 1
      OBVIOUS
    <3> QED BY <1>7, <1>11, <3>1
  <2>7. n # <<>>
    <3>1. ASSUME m = 0 PROVE FALSE
      <4>1. (k + 1) + (m + 1) - 1 = k + 1
        BY <3>1
      <4> QED BY <1>0, <1>9, <2>6, <4>1 DEF Neat
    <3> QED BY <2>2, <3>1, EmptySeq
  <2>8. n # <<Dot>>
    <3>1. ASSUME m = 1, n[1] = Dot PROVE FALSE
      <4>1. (k + 1) + (m + 1) - 1 = (k + 1) + 1 /\ (k + 1) + (m + 1) - 2 = k + 1 /\ 1 \in 1 .. m
            /\ 1 \in 1 .. m + 1
        BY <3>1
      <4>2. e[(k + 1) + 1] = Dot
        BY <1>7, <2>2, <3>1, <4>1
      <4> QED BY <1>0, <1>9, <2>6, <4>1, <4>2 DEF Neat
    <3> QED BY <2>2, <3>1
  <2> QED BY <2>2, <2>3, <2>4, <2>5, <2>7, <2>8, NameIs
<1>12. CASE x[m + 1] # Slash
  <2>1. ShortName(r, e) = x
    BY <1>2, <1>6, <1>12 DEF ShortName, Last
  <2>2. NoSlash(x)
    <3>1. \A j \in 1 .. m + 1 : j = m + 1 \/ j \in 1 .. m
      OBVIOUS
    <3> QED BY <1>6, <1>8, <1>12, <3>1 DEF NoSlash
  <2>3. x # <<Dot>>
    <3> SUFFICES ASSUME m = 0, x[1] = Dot PROVE FALSE
        BY <1>6
    <3>1. e[(k + 1) + 1] = Dot /\ Len(e) = (k + 1) + 1
      <4>1. 1 \in 1 .. m + 1
        OBVIOUS
      <4> QED BY <1>7, <4>1
    <3>2. ~EndsInSlash(e)
      BY <1>10, <3>1 DEF EndsInSlash
    <3>3. Neat(Append(e, Slash))
      BY <1>0, <3>2, DirIs, FileIs DEF ProperName
    <3>4. PICK u : u = Append(e, Slash)
      OBVIOUS
    <3>5. /\ Len(u) = (k + 1) + 2 /\ u[(k + 1) + 2] = Slash
          /\ \A i \in 1 .. (k + 1) + 1 : u[i] = e[i]
      BY <1>0, <1>10, <3>1, <3>4, AppendProperties DEF Text
    <3>6. u[(k + 1) + 1] = Dot /\ u[k + 1] = Slash
      <4>1. (k + 1) + 1 \in 1 .. (k + 1) + 1 /\ k + 1 \in 1 .. (k + 1) + 1
        OBVIOUS
      <4> QED BY <1>9, <3>1, <3>5, <4>1
    <3>7. (k + 1) + 2 \in 1 .. Len(u) /\ ((k + 1) + 2) - 1 = (k + 1) + 1 /\ ((k + 1) + 2) - 2 = k + 1
      BY <3>5
    <3> QED BY <3>3, <3>4, <3>5, <3>6, <3>7 DEF Neat
  <2> QED BY <1>4, <1>5, <2>1, <2>2, <2>3, NameIs
<1> QED BY <1>11, <1>12

-----------------------------------------------------------------------------
(* The loops of the router.                                                *)

(* A turn of the loop that quotes puts a backslash before each c.          *)
Unquoted(s, c) == [i \in 1 .. Len(s) |-> IF s[i] = c THEN <<Backslash, c>> ELSE <<s[i]>>]

(* A text with a character quoted is a text.                               *)
LEMMA ReplacedIs ==
    ASSUME NEW s \in Text, NEW c \in Byte
    PROVE  Replaced(s, c) \in Text
<1>1. PICK ss : ss = Unquoted(s, c)
  OBVIOUS
<1>2. Backslash \in Byte
  BY DEF Backslash, Byte
<1>3. ss \in Seq(Text)
  <2>1. ASSUME NEW i \in 1 .. Len(s) PROVE ss[i] \in Text
    <3>1. s[i] \in Byte
      BY DEF Text
    <3>2. <<Backslash, c>> \in Text /\ <<s[i]>> \in Text
      BY <1>2, <3>1 DEF Text
    <3> QED BY <1>1, <3>2 DEF Unquoted
  <2>2. ss \in [1 .. Len(s) -> Text]
    BY <1>1, <2>1 DEF Unquoted
  <2>3. Len(s) \in Nat
    BY DEF Text
  <2> QED BY <2>2, <2>3, SeqDef
<1>4. <<>> \in Text
  BY DEF Text
<1>5. FlattenSeq(ss) \in Text
  BY <1>3, <1>4, FlattenAppend DEF Text
<1> QED BY <1>1, <1>5 DEF Replaced, Unquoted

(* The loop that quotes the characters of Order, one after the other.      *)
Quotes(f, s) ==
    /\ f \in [0 .. 14 -> Text] /\ f[0] = s
    /\ \A i \in 1 .. 14 : f[i] = Replaced(f[i - 1], Order[i])

(* The characters to be quoted are fourteen.                               *)
LEMMA OrderIs == Len(Order) = 14 /\ \A i \in 1 .. 14 : Order[i] \in Byte
<1>1. Order = <<92, 46, 42, 43, 63, 94, 36, 123, 125, 40, 41, 124, 91, 93>>
  BY DEF Order, Escaped, Backslash
<1>2. Order \in Seq(0 .. 255) /\ Len(Order) = 14
  BY <1>1
<1>3. \A i \in 1 .. 14 : Order[i] \in 0 .. 255
  <2>1. PICK o \in Seq(0 .. 255) : o = Order /\ Len(o) = 14
    BY <1>2
  <2>2. \A i \in 1 .. Len(o) : o[i] \in 0 .. 255
    BY <2>1, ElementOfSeq
  <2> QED BY <2>1, <2>2
<1> QED BY <1>2, <1>3 DEF Byte

Quoting(f, s) == f = [i \in 0 .. Len(Order) |-> IF i = 0 THEN s ELSE Replaced(f[i - 1], Order[i])]

(* Quoted is its loop, and gives a text.                                   *)
LEMMA QuoteLoop ==
    ASSUME NEW s \in Text
    PROVE  \E f : Quotes(f, s) /\ Quoted(s) = f[14]
<1>1. PICK F : Makes(F, 14, Text)
               /\ \A i \in 1 .. 14, x \in Text : F[<<i, x>>] = Replaced(x, Order[i])
  <2>1. PICK F : F = [q \in (1 .. 14) \X Text |-> Replaced(q[2], Order[q[1]])]
    OBVIOUS
  <2>2. \A i \in 1 .. 14, x \in Text : F[<<i, x>>] = Replaced(x, Order[i])
    BY <2>1
  <2>3. F \in [(1 .. 14) \X Text -> Text]
    BY <2>1, OrderIs, ReplacedIs
  <2> QED BY <2>2, <2>3, Zenon DEF Makes
<1>2. PICK f : Follows(f, F, 14, Text, s)
  BY <1>1, Recursion
<1>3. /\ f \in [0 .. 14 -> Text] /\ f = [i \in 0 .. 14 |-> f[i]] /\ f[0] = s
      /\ \A i \in 1 .. 14 : f[i] = F[<<i, f[i - 1]>>]
  BY <1>2 DEF Follows
<1>4. \A i \in 1 .. 14 : f[i] = Replaced(f[i - 1], Order[i])
  <2>1. ASSUME NEW i \in 1 .. 14 PROVE f[i - 1] \in Text
    BY <1>3
  <2> QED BY <1>1, <1>3, <2>1
<1>5. ASSUME NEW g
      PROVE  Quoting(g, s) <=> g = [i \in 0 .. 14 |-> IF i = 0 THEN s ELSE Replaced(g[i - 1], Order[i])]
  BY OrderIs DEF Quoting
<1>6. Quoting(f, s)
  <2>1. ASSUME NEW i \in 0 .. 14
        PROVE  f[i] = IF i = 0 THEN s ELSE Replaced(f[i - 1], Order[i])
    <3>1. i = 0 \/ i \in 1 .. 14
      OBVIOUS
    <3> QED BY <1>3, <1>4, <3>1
  <2>2. f = [i \in 0 .. 14 |-> IF i = 0 THEN s ELSE Replaced(f[i - 1], Order[i])]
    BY <1>3, <2>1
  <2> QED BY <1>5, <2>2
<1>7. PICK g : g = (CHOOSE h : Quoting(h, s)) /\ Quoted(s) = g[14]
  BY OrderIs DEF Quoted, Quoting
<1>8. g = [i \in 0 .. 14 |-> IF i = 0 THEN s ELSE Replaced(g[i - 1], Order[i])]
  <2>1. Quoting(g, s)
    BY <1>6, <1>7
  <2> QED BY <1>5, <2>1
<1>9. /\ g = [i \in 0 .. 14 |-> g[i]] /\ g[0] = s
      /\ \A i \in 1 .. 14 : g[i] = Replaced(g[i - 1], Order[i])
  BY <1>8
<1>10. Follows(g, F, 14, Text, s)
  <2>1. \A i \in 1 .. 14 : g[i - 1] \in Text => g[i] = F[<<i, g[i - 1]>>]
    BY <1>1, <1>9
  <2>2. g = [i \in 0 .. 14 |-> g[i]] /\ g[0] = s /\ Makes(F, 14, Text) /\ 14 \in Nat
    BY <1>1, <1>9
  <2> QED BY <2>1, <2>2, Obeying
<1>11. g \in [0 .. 14 -> Text]
  BY <1>10 DEF Follows
<1> QED BY <1>7, <1>9, <1>11 DEF Quotes

(* A quoted text is a text.                                                *)
LEMMA QuotedIs ==
    ASSUME NEW s \in Text
    PROVE  Quoted(s) \in Text
<1>1. PICK f : Quotes(f, s) /\ Quoted(s) = f[14]
  BY QuoteLoop
<1> QED BY <1>1 DEF Quotes

(* The loop over a quoted text that reads another.                         *)
ScanState == [quoted : BOOLEAN, chars : Nat, fits : BOOLEAN]
Unscanned == [quoted |-> FALSE, chars |-> 0, fits |-> TRUE]

(* A turn of Scan keeps its state.                                         *)
LEMMA ScanIs ==
    ASSUME NEW b \in ScanState, NEW c, NEW s
    PROVE  Scan(b, c, s) \in ScanState
<1>1. PICK i \in Nat : i = b.chars + 1
  BY DEF ScanState
<1>2. CASE c = Backslash /\ ~b.quoted
  <2>1. Scan(b, c, s) = [b EXCEPT !.quoted = TRUE]
    BY <1>2 DEF Scan
  <2> QED BY <2>1 DEF ScanState
<1>3. CASE ~(c = Backslash /\ ~b.quoted)
  <2>1. PICK d \in BOOLEAN :
            Scan(b, c, s) = [quoted |-> FALSE, chars |-> i, fits |-> b.fits /\ d]
    <3> DEFINE d == /\ i <= Len(s)
                    /\ IF c = Dot /\ ~b.quoted THEN s[i] \notin LineEnd
                       ELSE c = s[i] /\ (b.quoted \/ c \notin ToSet(Escaped))
    <3>1. d \in BOOLEAN
      OBVIOUS
    <3>2. Scan(b, c, s) = [quoted |-> FALSE, chars |-> i, fits |-> b.fits /\ d]
      BY <1>1, <1>3 DEF Scan
    <3> HIDE DEF d
    <3> QED BY <3>1, <3>2
  <2> QED BY <2>1 DEF ScanState
<1> QED BY <1>2, <1>3

Scans(g, r, s, n) ==
    /\ g \in [0 .. n -> ScanState] /\ g = [i \in 0 .. n |-> g[i]] /\ g[0] = Unscanned
    /\ \A i \in 1 .. n : g[i] = Scan(g[i - 1], r[i], s)

Scanning(g, r, s) == g = [i \in 0 .. Len(r) |-> IF i = 0 THEN Unscanned ELSE Scan(g[i - 1], r[i], s)]

(* Reads is its loop, and no more than its loop.                           *)
LEMMA ScanLoop ==
    ASSUME NEW r \in Text, NEW s
    PROVE  \E g : Scans(g, r, s, Len(r))
               /\ (Reads(r, s) <=> g[Len(r)] = [quoted |-> FALSE, chars |-> Len(s), fits |-> TRUE])
<1>1. PICK n \in Nat : n = Len(r)
  BY DEF Text
<1>2. PICK F : Makes(F, n, ScanState)
               /\ \A i \in 1 .. n, x \in ScanState : F[<<i, x>>] = Scan(x, r[i], s)
  <2>1. PICK F : F = [q \in (1 .. n) \X ScanState |-> Scan(q[2], r[q[1]], s)]
    OBVIOUS
  <2>2. \A i \in 1 .. n, x \in ScanState : F[<<i, x>>] = Scan(x, r[i], s)
    BY <2>1
  <2>3. F \in [(1 .. n) \X ScanState -> ScanState]
    BY <2>1, ScanIs
  <2> QED BY <2>2, <2>3, Zenon DEF Makes
<1>3. Unscanned \in ScanState
  BY DEF ScanState, Unscanned
<1>4. PICK f : Follows(f, F, n, ScanState, Unscanned)
  BY <1>2, <1>3, Recursion
<1>5. /\ f \in [0 .. n -> ScanState] /\ f = [i \in 0 .. n |-> f[i]] /\ f[0] = Unscanned
      /\ \A i \in 1 .. n : f[i] = F[<<i, f[i - 1]>>]
  BY <1>4 DEF Follows
<1>6. \A i \in 1 .. n : f[i] = Scan(f[i - 1], r[i], s)
  <2>1. ASSUME NEW i \in 1 .. n PROVE f[i - 1] \in ScanState
    BY <1>5
  <2> QED BY <1>2, <1>5, <2>1
<1>7. ASSUME NEW g
      PROVE  Scanning(g, r, s)
             <=> g = [i \in 0 .. n |-> IF i = 0 THEN Unscanned ELSE Scan(g[i - 1], r[i], s)]
  BY <1>1 DEF Scanning
<1>8. Scanning(f, r, s)
  <2>1. ASSUME NEW i \in 0 .. n
        PROVE  f[i] = IF i = 0 THEN Unscanned ELSE Scan(f[i - 1], r[i], s)
    <3>1. i = 0 \/ i \in 1 .. n
      OBVIOUS
    <3> QED BY <1>5, <1>6, <3>1
  <2>2. f = [i \in 0 .. n |-> IF i = 0 THEN Unscanned ELSE Scan(f[i - 1], r[i], s)]
    BY <1>5, <2>1
  <2> QED BY <1>7, <2>2
<1>9. PICK g : g = (CHOOSE h : Scanning(h, r, s)) /\
               (Reads(r, s) <=> g[Len(r)] = [quoted |-> FALSE, chars |-> Len(s), fits |-> TRUE])
  BY DEF Reads, Scanning, Unscanned
<1>10. g = [i \in 0 .. n |-> IF i = 0 THEN Unscanned ELSE Scan(g[i - 1], r[i], s)]
  <2>1. Scanning(g, r, s)
    BY <1>8, <1>9
  <2> QED BY <1>7, <2>1
<1>11. /\ g = [i \in 0 .. n |-> g[i]] /\ g[0] = Unscanned
       /\ \A i \in 1 .. n : g[i] = Scan(g[i - 1], r[i], s)
  BY <1>10
<1>12. Follows(g, F, n, ScanState, Unscanned)
  BY <1>2, <1>3, <1>11, Obeying
<1>13. g \in [0 .. n -> ScanState]
  BY <1>12 DEF Follows
<1> QED BY <1>1, <1>9, <1>11, <1>13 DEF Scans

(* However a text is read by a regular expression, all texts it reads are  *)
(* of one length.                                                          *)
LEMMA ReadsLength ==
    ASSUME NEW r \in Text, NEW s, NEW t, Reads(r, s), Reads(r, t)
    PROVE  Len(s) = Len(t)
<1>1. PICK n \in Nat : n = Len(r)
  BY DEF Text
<1>2. PICK g : Scans(g, r, s, n) /\ g[n] = [quoted |-> FALSE, chars |-> Len(s), fits |-> TRUE]
  BY <1>1, ScanLoop
<1>3. PICK h : Scans(h, r, t, n) /\ h[n] = [quoted |-> FALSE, chars |-> Len(t), fits |-> TRUE]
  BY <1>1, ScanLoop
<1>4. /\ g \in [0 .. n -> ScanState] /\ g[0] = Unscanned
      /\ \A i \in 1 .. n : g[i] = Scan(g[i - 1], r[i], s)
  BY <1>2 DEF Scans
<1>5. /\ h \in [0 .. n -> ScanState] /\ h[0] = Unscanned
      /\ \A i \in 1 .. n : h[i] = Scan(h[i - 1], r[i], t)
  BY <1>3 DEF Scans
<1> DEFINE S == {i \in Nat : i <= n => g[i].quoted = h[i].quoted /\ g[i].chars = h[i].chars}
<1>6. 0 \in S
  BY <1>4, <1>5
<1>7. ASSUME NEW i \in S PROVE i + 1 \in S
  <2>1. i \in Nat /\ i + 1 \in Nat
    OBVIOUS
  <2> SUFFICES ASSUME i + 1 <= n
               PROVE  g[i + 1].quoted = h[i + 1].quoted /\ g[i + 1].chars = h[i + 1].chars
      BY <2>1
  <2>2. i + 1 \in 1 .. n /\ (i + 1) - 1 = i /\ i \in 0 .. n
    BY <2>1
  <2>3. PICK a, b, c : /\ a = g[i] /\ b = h[i] /\ c = r[i + 1]
                       /\ a \in ScanState /\ b \in ScanState
    BY <1>4, <1>5, <2>2
  <2>4. a.quoted = b.quoted /\ a.chars = b.chars
    BY <2>1, <2>2, <2>3
  <2>5. g[i + 1] = Scan(a, c, s) /\ h[i + 1] = Scan(b, c, t)
    BY <1>4, <1>5, <2>2, <2>3
  <2>6. CASE c = Backslash /\ ~a.quoted
    <3>1. Scan(a, c, s) = [a EXCEPT !.quoted = TRUE] /\ Scan(b, c, t) = [b EXCEPT !.quoted = TRUE]
      BY <2>4, <2>6 DEF Scan
    <3> QED BY <2>3, <2>4, <2>5, <3>1 DEF ScanState
  <2>7. CASE ~(c = Backslash /\ ~a.quoted)
    <3>1. Scan(a, c, s).quoted = FALSE /\ Scan(a, c, s).chars = a.chars + 1
      BY <2>7 DEF Scan
    <3>2. Scan(b, c, t).quoted = FALSE /\ Scan(b, c, t).chars = b.chars + 1
      BY <2>4, <2>7 DEF Scan
    <3> QED BY <2>4, <2>5, <3>1, <3>2
  <2> QED BY <2>6, <2>7
<1>8. S = Nat
  <2>1. S \in SUBSET Nat
    OBVIOUS
  <2> HIDE DEF S
  <2> QED BY <1>6, <1>7, <2>1, SetInduction
<1>9. g[n].chars = h[n].chars
  <2>1. n \in S
    <3> HIDE DEF S
    <3> QED BY <1>8
  <2> QED BY <2>1
<1> QED BY <1>2, <1>3, <1>9

-----------------------------------------------------------------------------
(* The route of serve_dir.                                                 *)

(* A part of a pattern that tells how long what it takes is.               *)
Solid(info) == info.type = "match_all" \/ (info.type = "equals" /\ info.str \in Text)

(* A route whose last part takes what is left.                             *)
EndsOpen(infos, k) ==
    /\ Len(infos) = k + 1 /\ \A i \in 1 .. k : Solid(infos[i])
    /\ infos[k + 1].type = "regex"

FsPart == <<OpenBrace, 102, 115, Colon, 46, 42, CloseBrace>>

(* The part behind the uri, {fs_path:.*}, takes what is left; a part       *)
(* without a regular expression is solid.                                  *)
LEMMA FsPartIs ==
    /\ FsPart \in Text /\ NoSlash(FsPart)
    /\ FsPart = <<OpenBrace>> \o FsPath \o <<Colon, 46, 42, CloseBrace>>
    /\ Info(FsPart) = [type |-> "regex", param |-> FsPath, str |-> <<>>]
<1>1. FsPart \in Text
  BY DEF FsPart, OpenBrace, Colon, CloseBrace, Byte, Text
<1>2. NoSlash(FsPart)
  <2>1. Len(FsPart) = 7 /\ 1 .. 7 = {1, 2, 3, 4, 5, 6, 7}
    BY DEF FsPart
  <2> QED BY <2>1 DEF NoSlash, FsPart, Slash, OpenBrace, Colon, CloseBrace
<1>3. FsPart = <<OpenBrace>> \o FsPath \o <<Colon, 46, 42, CloseBrace>>
  BY DEF FsPart, FsPath
<1>4. PICK inner : inner = SubSeq(FsPart, 2, Len(FsPart) - 1)
  OBVIOUS
<1>5. inner = <<102, 115, Colon, 46, 42>>
  <2>1. PICK f : f = FsPart
    OBVIOUS
  <2>2. /\ f \in Text /\ Len(f) = 7 /\ f[2] = 102 /\ f[3] = 115 /\ f[4] = Colon
        /\ f[5] = 46 /\ f[6] = 42
    BY <1>1, <2>1 DEF FsPart
  <2>3. inner \in Text /\ Len(inner) = 5 /\ \A j \in 1 .. 5 : inner[j] = f[j + 1]
    <3>1. inner = SubSeq(f, 2, 6)
      BY <1>4, <2>1, <2>2
    <3>2. \A j \in 1 .. 5 : inner[j] = f[2 + j - 1]
      BY <2>2, <3>1 DEF Text
    <3>3. \A j \in 1 .. 5 : 2 + j - 1 = j + 1
      OBVIOUS
    <3>4. inner \in Text /\ Len(inner) = 5
      BY <2>2, <3>1 DEF Text
    <3> QED BY <3>2, <3>3, <3>4
  <2>4. /\ inner[1] = f[2] /\ inner[2] = f[3] /\ inner[3] = f[4]
        /\ inner[4] = f[5] /\ inner[5] = f[6]
    BY <2>3
  <2>5. PICK g : g = <<102, 115, Colon, 46, 42>>
    OBVIOUS
  <2>6. g \in Text /\ Len(g) = 5 /\ g[1] = 102 /\ g[2] = 115 /\ g[3] = Colon
        /\ g[4] = 46 /\ g[5] = 42
    BY <2>5 DEF Text, Colon, Byte
  <2>7. \A j \in 1 .. 5 : inner[j] = g[j]
    <3>1. 1 .. 5 = {1, 2, 3, 4, 5}
      OBVIOUS
    <3> QED BY <2>2, <2>4, <2>6, <3>1
  <2>8. inner = g
    BY <2>3, <2>6, <2>7, SeqEqual DEF Text
  <2> QED BY <2>5, <2>8
<1>6. Find(Colon, inner, 1) = 3
  <2>1. inner \in Text /\ Len(inner) = 5
    BY <1>5 DEF Colon, Byte, Text
  <2>2. inner[3] = Colon /\ \A j \in 1 .. 3 - 1 : inner[j] # Colon
    <3>1. 1 .. 3 - 1 = {1, 2}
      OBVIOUS
    <3> QED BY <1>5, <3>1 DEF Colon
  <2> QED BY <2>1, <2>2, FindAt
<1>7. Before(inner, 3) = FsPath
  <2>1. inner \in Text /\ Len(inner) = 5 /\ inner[1] = 102 /\ inner[2] = 115
    BY <1>5 DEF Colon, Byte, Text
  <2>2. PICK f, g : f = SubSeq(inner, 1, 2) /\ g = FsPath
    OBVIOUS
  <2>3. f \in Text /\ Len(f) = 2 /\ f[1] = 102 /\ f[2] = 115
    BY <2>1, <2>2 DEF Text
  <2>4. g \in Text /\ Len(g) = 2 /\ g[1] = 102 /\ g[2] = 115
    BY <2>2 DEF FsPath, Text, Byte
  <2>5. \A j \in 1 .. 2 : f[j] = g[j]
    <3>1. 1 .. 2 = {1, 2}
      OBVIOUS
    <3> QED BY <2>3, <2>4, <3>1
  <2>6. f = g
    BY <2>3, <2>4, <2>5, SeqEqual DEF Text
  <2> QED BY <2>2, <2>6 DEF Before
<1>8. FsPart[1] = OpenBrace /\ Last(FsPart) = CloseBrace
  BY DEF FsPart, Last
<1>9. Len(inner) = 5
  BY <1>5
<1>10. Info(FsPart) = [type |-> "regex", param |-> FsPath, str |-> <<>>]
  <2>1. FsPart[1] = OpenBrace /\ Last(FsPart) = CloseBrace =>
        Info(FsPart) = [type |-> IF Find(Colon, inner, 1) > Len(inner) THEN "match_all" ELSE "regex",
                        param |-> Before(inner, Find(Colon, inner, 1)), str |-> <<>>]
    <3>1. FsPart[1] # Colon
      BY <1>8 DEF OpenBrace, Colon
    <3> QED BY <1>4, <3>1, Zenon DEF Info
  <2> QED BY <1>6, <1>7, <1>8, <1>9, <2>1
<1> QED BY <1>1, <1>2, <1>3, <1>10

(* A part of a route is a regular expression, or matches what has no slash *)
(* or one text.                                                            *)
LEMMA InfoIs ==
    ASSUME NEW part \in Text
    PROVE  Info(part).type = "regex" \/ Solid(Info(part))
<1> DEFINE inner == SubSeq(part, 2, Len(part) - 1)
           i == Find(Colon, inner, 1)
<1>1. CASE part[1] = OpenBrace /\ Last(part) = CloseBrace
  <2>1. Info(part) = [type |-> IF i > Len(inner) THEN "match_all" ELSE "regex",
                      param |-> Before(inner, i), str |-> <<>>]
    <3>1. part[1] = OpenBrace /\ Last(part) = CloseBrace /\ part[1] # Colon
      BY <1>1 DEF OpenBrace, Colon
    <3> QED BY <3>1, Zenon DEF Info
  <2> HIDE DEF i, inner
  <2> QED BY <2>1 DEF Solid
<1>2. CASE ~(part[1] = OpenBrace /\ Last(part) = CloseBrace) /\ part[1] = Colon
  <2>1. Info(part) = [type |-> "match_all", param |-> Tail(part), str |-> <<>>]
    BY <1>2, Zenon DEF Info
  <2> QED BY <2>1 DEF Solid
<1>3. CASE ~(part[1] = OpenBrace /\ Last(part) = CloseBrace) /\ part[1] # Colon
  <2>1. Info(part) = [type |-> "equals", param |-> <<>>, str |-> part]
    BY <1>3, Zenon DEF Info
  <2> QED BY <2>1 DEF Solid
<1> QED BY <1>1, <1>2, <1>3

(* None of the parts of the uri has a regular expression of its own.       *)
PlainParts(uri) == \A i \in DOMAIN parse_route(uri) : parse_route(uri)[i].type # "regex"

(* The route of serve_dir has the parts of its uri, and the open end.      *)
LEMMA DirRouteIs ==
    ASSUME Prefix \in Text, EndsInSlash(Prefix), PlainParts(Prefix)
    PROVE  \E k \in Nat : /\ EndsOpen(DirRoute, k) /\ DirRoute[k + 1].param = FsPath
                          /\ k = Len(parse_route(Prefix))
                          /\ \A i \in 1 .. k : DirRoute[i] = parse_route(Prefix)[i]
<1> DEFINE d == {<<>>}
<1>1. PICK ps \in Seq(Text) : ps = Pieces(Slash, Prefix, d)
  BY PiecesSeq
<1>2. PICK k \in Nat : k = Len(ps)
  OBVIOUS
<1>3. Pieces(Slash, FsPart, d) = <<FsPart>>
  <2>1. FsPart \notin d
    <3>1. Len(FsPart) = 7
      BY DEF FsPart
    <3> QED BY <3>1
  <2>2. Slash \in Byte
    BY DEF Slash, Byte
  <2> HIDE DEF d
  <2>3. \A i \in 1 .. Len(FsPart) : FsPart[i] # Slash
    BY FsPartIs DEF NoSlash
  <2>4. PICK c, t : c = Slash /\ t = FsPart /\ t \in Text
    BY FsPartIs
  <2>5. c \in Byte /\ \A i \in 1 .. Len(t) : t[i] # c
    BY <2>2, <2>3, <2>4
  <2>6. Pieces(c, t, d) = IF t \in d THEN <<>> ELSE <<t>>
    BY <2>4, <2>5, PiecesOne
  <2> QED BY <2>1, <2>4, <2>6
<1>4. PICK qs : qs = Pieces(Slash, Prefix \o FsPart, d)
  OBVIOUS
<1>5. qs = Append(ps, FsPart)
  <2>1. <<>> \in d
    OBVIOUS
  <2> HIDE DEF d
  <2>2. Pieces(Slash, Prefix \o FsPart, d) = Pieces(Slash, Prefix, d) \o Pieces(Slash, FsPart, d)
    BY <2>1, FsPartIs, PiecesBehind
  <2>3. ps \o <<FsPart>> = Append(ps, FsPart)
    BY <1>1, FsPartIs, AppendIsConcat
  <2> QED BY <1>1, <1>3, <1>4, <2>2, <2>3
<1>6. /\ Len(qs) = k + 1 /\ qs[k + 1] = FsPart
      /\ \A i \in 1 .. k : qs[i] = ps[i]
  <2> HIDE DEF d
  <2>1. PICK t \in Text : t = FsPart
    BY FsPartIs
  <2>2. qs = Append(ps, t)
    BY <1>5, <2>1
  <2>3. /\ Len(Append(ps, t)) = Len(ps) + 1 /\ Append(ps, t)[Len(ps) + 1] = t
        /\ \A i \in 1 .. Len(ps) : Append(ps, t)[i] = ps[i]
    BY <1>1, AppendProperties
  <2> QED BY <1>2, <2>1, <2>2, <2>3
<1>7. Prefix \o <<OpenBrace>> \o FsPath \o <<Colon, 46, 42, CloseBrace>> = Prefix \o FsPart
  <2>1. PICK a, b, c : a = <<OpenBrace>> /\ b = FsPath /\ c = <<Colon, 46, 42, CloseBrace>>
    OBVIOUS
  <2>2. a \in Text /\ b \in Text /\ c \in Text
    BY <2>1 DEF FsPath, OpenBrace, Colon, CloseBrace, Byte, Text
  <2>3. FsPart = a \o b \o c
    BY <2>1, FsPartIs
  <2>4. PICK e \in Text : e = a \o b
    BY <2>2, Glued
  <2>5. (Prefix \o a) \o b = Prefix \o e
    BY <2>2, <2>4, GluedInTurn
  <2>6. (Prefix \o e) \o c = Prefix \o (e \o c)
    <3>1. Prefix \in Text /\ e \in Text /\ c \in Text
      BY <2>2, <2>4
    <3> QED BY <3>1, GluedInTurn
  <2> QED BY <2>1, <2>3, <2>4, <2>5, <2>6
<1>8. DirRoute = [i \in 1 .. k + 1 |-> Info(qs[i])]
  BY <1>4, <1>6, <1>7 DEF DirRoute, parse_route
<1>9. parse_route(Prefix) = [i \in 1 .. k |-> Info(ps[i])]
  BY <1>1, <1>2 DEF parse_route
<1>10. Len(DirRoute) = k + 1 /\ Len(parse_route(Prefix)) = k
  BY <1>8, <1>9
<1>11. ASSUME NEW i \in 1 .. k
       PROVE  DirRoute[i] = parse_route(Prefix)[i] /\ Solid(DirRoute[i])
  <2>1. i \in 1 .. k + 1
    BY <1>2
  <2>2. DirRoute[i] = Info(ps[i])
    BY <1>6, <1>8, <2>1
  <2>3. parse_route(Prefix)[i] = Info(ps[i]) /\ DOMAIN parse_route(Prefix) = 1 .. k
    BY <1>9
  <2>4. ps[i] \in Text
    BY <1>1, <1>2
  <2>5. Info(ps[i]).type # "regex"
    BY <2>3 DEF PlainParts
  <2> QED BY <2>2, <2>3, <2>4, <2>5, InfoIs
<1>12. DirRoute[k + 1] = Info(FsPart)
  <2>1. k + 1 \in 1 .. k + 1
    BY <1>2
  <2> QED BY <1>6, <1>8, <2>1
<1>13. EndsOpen(DirRoute, k) /\ DirRoute[k + 1].param = FsPath
  BY <1>10, <1>11, <1>12, FsPartIs DEF EndsOpen
<1> QED BY <1>10, <1>11, <1>13

(* The places at which a path is cut, for k parts and an open end.         *)
Cut(c, infos, path, k) ==
    /\ c \in [1 .. k + 2 -> 1 .. Len(path) + 1]
    /\ \A i \in 1 .. k + 2 : c[i] = Len(path) + 1 \/ path[c[i]] = Slash
    /\ c[1] = 1 /\ c[k + 2] = Len(path) + 1
    /\ \A i \in 1 .. k + 1 : c[i] < c[i + 1] /\ Fits(infos[i], Share(path, c, i))

(* A cut gives each part a share of the path.                              *)
LEMMA CutsIs ==
    ASSUME NEW k \in Nat, NEW infos, Len(infos) = k + 1, NEW path \in Text, NEW c
    PROVE  c \in Cuts(infos, path) <=> Cut(c, infos, path, k)
<1>1. PICK m \in Nat : m = Len(path)
  BY DEF Text
<1>2. (k + 1) + 1 = k + 2
  OBVIOUS
<1>3. c \in Cuts(infos, path) <=>
         /\ c \in [1 .. k + 2 -> {i \in 1 .. m + 1 : i = m + 1 \/ path[i] = Slash}]
         /\ c[1] = 1 /\ c[k + 2] = m + 1
         /\ \A i \in 1 .. k + 1 : c[i] < c[i + 1] /\ Fits(infos[i], Share(path, c, i))
  BY <1>1, <1>2 DEF Cuts
<1>4. c \in [1 .. k + 2 -> {i \in 1 .. m + 1 : i = m + 1 \/ path[i] = Slash}] <=>
         /\ c \in [1 .. k + 2 -> 1 .. m + 1]
         /\ \A i \in 1 .. k + 2 : c[i] = m + 1 \/ path[c[i]] = Slash
  OBVIOUS
<1> QED BY <1>1, <1>3, <1>4 DEF Cut

(* What lies between two cuts.                                             *)
LEMMA ShareIs ==
    ASSUME NEW path \in Text, NEW a \in Nat \ {0}, NEW b \in Nat, a < b, b <= Len(path) + 1
    PROVE  /\ SubSeq(path, a + 1, b - 1) \in Text /\ Len(SubSeq(path, a + 1, b - 1)) = b - a - 1
           /\ \A i \in 1 .. b - a - 1 : SubSeq(path, a + 1, b - 1)[i] = path[a + i]
<1>1. PICK m \in Nat : m = Len(path)
  BY DEF Text
<1>2. a + 1 \in Nat /\ b - 1 \in Nat /\ a + 1 <= (b - 1) + 1 /\ (b - 1) - (a + 1) + 1 = b - a - 1
      /\ b - 1 <= m
  BY <1>1
<1>3. PICK s : s = SubSeq(path, a + 1, b - 1)
  OBVIOUS
<1>4. s \in Text
  BY <1>1, <1>2, <1>3 DEF Text
<1>5. Len(s) = b - a - 1
  BY <1>1, <1>2, <1>3 DEF Text
<1>6. \A i \in 1 .. b - a - 1 : s[i] = path[(a + 1) + i - 1]
  BY <1>1, <1>2, <1>3 DEF Text
<1>7. \A i \in 1 .. b - a - 1 : (a + 1) + i - 1 = a + i
  OBVIOUS
<1> QED BY <1>3, <1>4, <1>5, <1>6, <1>7

(* What a part with no regular expression of its own takes ends where it   *)
(* ends, wherever it is said to.                                           *)
LEMMA OneEnd ==
    ASSUME NEW path \in Text, NEW info, Solid(info), NEW a \in Nat \ {0}, NEW b \in Nat, NEW c \in Nat,
           a < b, b <= Len(path) + 1, b = Len(path) + 1 \/ path[b] = Slash,
           a < c, c <= Len(path) + 1, c = Len(path) + 1 \/ path[c] = Slash,
           Fits(info, SubSeq(path, a + 1, b - 1)), Fits(info, SubSeq(path, a + 1, c - 1))
    PROVE  b = c
<1>1. PICK m \in Nat : m = Len(path)
  BY DEF Text
<1>2. PICK s, t : s = SubSeq(path, a + 1, b - 1) /\ t = SubSeq(path, a + 1, c - 1)
  OBVIOUS
<1>3. s \in Text /\ Len(s) = b - a - 1 /\ \A i \in 1 .. b - a - 1 : s[i] = path[a + i]
  BY <1>2, ShareIs
<1>4. t \in Text /\ Len(t) = c - a - 1 /\ \A i \in 1 .. c - a - 1 : t[i] = path[a + i]
  BY <1>2, ShareIs
<1>5. CASE info.type = "equals" /\ info.str \in Text
  <2>1. Reads(Quoted(info.str), s) /\ Reads(Quoted(info.str), t)
    BY <1>2, <1>5, Zenon DEF Fits
  <2>2. Quoted(info.str) \in Text
    BY <1>5, QuotedIs
  <2>3. Len(s) = Len(t)
    BY <2>1, <2>2, ReadsLength
  <2> QED BY <1>3, <1>4, <2>3
<1>6. CASE info.type = "match_all"
  <2>1. info.type # "equals"
    BY <1>6
  <2>2. s # <<>> /\ Find(Slash, s, 1) > Len(s) /\ t # <<>> /\ Find(Slash, t, 1) > Len(t)
    BY <1>2, <1>6, <2>1, Zenon DEF Fits
  <2>3. ASSUME NEW u \in Text, Find(Slash, u, 1) > Len(u), NEW j \in 1 .. Len(u) PROVE u[j] # Slash
    <3>1. Len(u) \in Nat /\ 1 \in Nat \ {0} /\ 1 <= Len(u) + 1
      BY DEF Text
    <3>2. /\ Find(Slash, u, 1) \in 1 .. Len(u) + 1
          /\ \A i \in 1 .. Find(Slash, u, 1) - 1 : u[i] # Slash
      BY <3>1, FindIs
    <3>3. j \in 1 .. Find(Slash, u, 1) - 1
      BY <2>3, <3>1, <3>2
    <3> QED BY <3>2, <3>3
  <2>4. ~(b < c)
    <3> SUFFICES ASSUME b < c PROVE FALSE
        OBVIOUS
    <3>1. path[b] = Slash
      BY <1>1
    <3>2. b - a \in 1 .. c - a - 1 /\ a + (b - a) = b
      OBVIOUS
    <3>3. t[b - a] = Slash
      BY <1>4, <3>1, <3>2
    <3> QED BY <1>4, <2>2, <2>3, <3>2, <3>3
  <2>5. ~(c < b)
    <3> SUFFICES ASSUME c < b PROVE FALSE
        OBVIOUS
    <3>1. path[c] = Slash
      BY <1>1
    <3>2. c - a \in 1 .. b - a - 1 /\ a + (c - a) = c
      OBVIOUS
    <3>3. s[c - a] = Slash
      BY <1>3, <3>1, <3>2
    <3> QED BY <1>3, <2>2, <2>3, <3>2, <3>3
  <2> QED BY <2>4, <2>5
<1> QED BY <1>5, <1>6 DEF Solid

(* A path is cut at the same places, up to the open end.                   *)
LEMMA CutsAgree ==
    ASSUME NEW k \in Nat, NEW infos, EndsOpen(infos, k), NEW path \in Text,
           NEW c, Cut(c, infos, path, k), NEW d, Cut(d, infos, path, k)
    PROVE  c[k + 1] = d[k + 1]
<1>1. PICK m \in Nat : m = Len(path)
  BY DEF Text
<1>2. /\ c \in [1 .. k + 2 -> 1 .. m + 1] /\ c[1] = 1
      /\ \A i \in 1 .. k + 2 : c[i] = m + 1 \/ path[c[i]] = Slash
      /\ \A i \in 1 .. k + 1 : c[i] < c[i + 1] /\ Fits(infos[i], SubSeq(path, c[i] + 1, c[i + 1] - 1))
  BY <1>1 DEF Cut, Share
<1>3. /\ d \in [1 .. k + 2 -> 1 .. m + 1] /\ d[1] = 1
      /\ \A i \in 1 .. k + 2 : d[i] = m + 1 \/ path[d[i]] = Slash
      /\ \A i \in 1 .. k + 1 : d[i] < d[i + 1] /\ Fits(infos[i], SubSeq(path, d[i] + 1, d[i + 1] - 1))
  BY <1>1 DEF Cut, Share
<1> DEFINE S == {i \in Nat : i <= k => c[i + 1] = d[i + 1]}
<1>4. 0 \in S
  BY <1>2, <1>3
<1>5. ASSUME NEW i \in S PROVE i + 1 \in S
  <2>1. i \in Nat /\ i + 1 \in Nat
    OBVIOUS
  <2> SUFFICES ASSUME i + 1 <= k PROVE c[(i + 1) + 1] = d[(i + 1) + 1]
      BY <2>1
  <2>2. i + 1 \in 1 .. k + 1 /\ i + 1 \in 1 .. k + 2 /\ (i + 1) + 1 \in 1 .. k + 2 /\ i + 1 \in 1 .. k
    BY <2>1
  <2>3. PICK a, x, y : a = c[i + 1] /\ x = c[(i + 1) + 1] /\ y = d[(i + 1) + 1]
    OBVIOUS
  <2>4. d[i + 1] = a
    BY <2>1, <2>2, <2>3
  <2>5. a \in 1 .. m + 1 /\ x \in 1 .. m + 1 /\ y \in 1 .. m + 1
    BY <1>2, <1>3, <2>2, <2>3
  <2>6. (x = m + 1 \/ path[x] = Slash) /\ (y = m + 1 \/ path[y] = Slash)
    BY <1>2, <1>3, <2>2, <2>3
  <2>7. a < x /\ Fits(infos[i + 1], SubSeq(path, a + 1, x - 1))
    BY <1>2, <2>2, <2>3
  <2>8. a < y /\ Fits(infos[i + 1], SubSeq(path, a + 1, y - 1))
    BY <1>3, <2>2, <2>3, <2>4
  <2>9. Solid(infos[i + 1])
    BY <2>2 DEF EndsOpen
  <2>10. a \in Nat \ {0} /\ x \in Nat /\ y \in Nat /\ x <= Len(path) + 1 /\ y <= Len(path) + 1
    BY <1>1, <2>5
  <2>11. x = y
    BY <1>1, <2>6, <2>7, <2>8, <2>9, <2>10, OneEnd
  <2> QED BY <2>3, <2>11
<1>6. S = Nat
  <2>1. S \in SUBSET Nat
    OBVIOUS
  <2> HIDE DEF S
  <2> QED BY <1>4, <1>5, <2>1, SetInduction
<1>7. k \in S
  <2> HIDE DEF S
  <2> QED BY <1>6
<1> QED BY <1>7

(* A path matches where it can be cut, and a parameter is the share of its *)
(* part in any cut.                                                        *)
LEMMA MatchesCut ==
    ASSUME NEW k \in Nat, NEW infos, EndsOpen(infos, k), NEW path \in Text
    PROVE  Matches(infos, path) <=> \E c : Cut(c, infos, path, k)
<1>1. Len(infos) = k + 1 /\ infos # <<>>
  <2>1. Len(infos) = k + 1 /\ k + 1 # 0 /\ Len(<<>>) = 0
    BY DEF EndsOpen
  <2> QED BY <2>1
<1>2. Matches(infos, path) <=> \E c : c \in Cuts(infos, path)
  BY <1>1 DEF Matches, Shares
<1>3. \A c : c \in Cuts(infos, path) <=> Cut(c, infos, path, k)
  BY <1>1, CutsIs
<1> QED BY <1>2, <1>3

(* The last parameter is what comes after the last cut but one.            *)
LEMMA ParamIs ==
    ASSUME NEW k \in Nat, NEW infos, EndsOpen(infos, k), NEW path \in Text, NEW key,
           infos[k + 1].param = key, NEW c, Cut(c, infos, path, k)
    PROVE  get_param(infos, path, key) = After(path, c[k + 1])
<1>1. PICK m \in Nat : m = Len(path)
  BY DEF Text
<1>2. Len(infos) = k + 1
  BY DEF EndsOpen
<1>3. PICK share : share = (CHOOSE s \in Shares(infos, path) : TRUE)
  OBVIOUS
<1>4. PICK d : Cut(d, infos, path, k) /\ share = [i \in 1 .. k + 1 |-> Share(path, d, i)]
  <2>1. c \in Cuts(infos, path)
    BY <1>2, CutsIs
  <2>2. share \in Shares(infos, path)
    BY <1>3, <2>1 DEF Shares
  <2>3. PICK d \in Cuts(infos, path) : share = [i \in 1 .. k + 1 |-> Share(path, d, i)]
    BY <1>2, <2>2 DEF Shares
  <2> QED BY <1>2, <2>3, CutsIs
<1>5. PICK j : j = CHOOSE i \in 1 .. Len(infos) :
                      infos[i].param = key /\ \A l \in i + 1 .. Len(infos) : infos[l].param # key
  OBVIOUS
<1>6. j = k + 1
  <2> DEFINE L(i) == infos[i].param = key /\ \A l \in i + 1 .. k + 1 : infos[l].param # key
  <2>1. k + 1 \in 1 .. k + 1 /\ L(k + 1)
    OBVIOUS
  <2>2. ASSUME NEW i \in 1 .. k + 1, L(i) PROVE i = k + 1
    <3>1. i # k + 1 => k + 1 \in i + 1 .. k + 1
      OBVIOUS
    <3> QED BY <2>2, <3>1
  <2>3. j = CHOOSE i \in 1 .. k + 1 : L(i)
    BY <1>2, <1>5
  <2> HIDE DEF L
  <2> QED BY <2>1, <2>2, <2>3
<1>7. get_param(infos, path, key) = share[j]
  BY <1>3, <1>5 DEF get_param
<1>8. share[k + 1] = SubSeq(path, d[k + 1] + 1, d[k + 2] - 1)
  <2>1. k + 1 \in 1 .. k + 1 /\ (k + 1) + 1 = k + 2
    OBVIOUS
  <2> QED BY <1>4, <2>1 DEF Share
<1>9. d[k + 2] - 1 = m /\ d[k + 1] = c[k + 1]
  <2>1. d[k + 2] = m + 1
    BY <1>1, <1>4 DEF Cut
  <2>2. c[k + 1] = d[k + 1]
    BY <1>4, CutsAgree
  <2> QED BY <2>1, <2>2
<1> QED BY <1>1, <1>6, <1>7, <1>8, <1>9 DEF After

(* Neither of two texts has a line end: nor have they together.            *)
LEMMA OneLineGlued ==
    ASSUME NEW s \in Text, NEW t \in Text, OneLine(s), OneLine(t)
    PROVE  OneLine(s \o t)
<1>0. PICK u : u = s \o t
  OBVIOUS
<1>1. PICK m \in Nat, n \in Nat : m = Len(s) /\ n = Len(t)
  BY DEF Text
<1>2. Len(u) = m + n /\ \A i \in 1 .. m + n : u[i] = IF i <= m THEN s[i] ELSE t[i - m]
  <2>1. /\ Len(u) = Len(s) + Len(t)
        /\ \A i \in 1 .. Len(s) + Len(t) : u[i] = IF i <= Len(s) THEN s[i] ELSE t[i - Len(s)]
    BY <1>0, Glued
  <2> QED BY <1>1, <2>1
<1>3. ASSUME NEW i \in 1 .. m + n PROVE u[i] \notin LineEnd
  <2>1. i <= m => i \in 1 .. m
    BY <1>1
  <2>2. ~(i <= m) => i - m \in 1 .. n
    BY <1>1
  <2> QED BY <1>1, <1>2, <2>1, <2>2 DEF OneLine
<1> QED BY <1>0, <1>2, <1>3 DEF OneLine

(* A name behind a path that ends in a slash goes to the open end.         *)
LEMMA CutLonger ==
    ASSUME NEW k \in Nat, NEW infos, EndsOpen(infos, k), NEW p \in Text, EndsInSlash(p),
           NEW n \in Text, NoSlash(n), OneLine(n), NEW c, Cut(c, infos, p, k)
    PROVE  \E d : Cut(d, infos, p \o n, k) /\ d[k + 1] = c[k + 1]
<1>1. PICK m \in Nat, l \in Nat : m = Len(p) /\ l = Len(n)
  BY DEF Text
<1>2. PICK q : q = p \o n
  OBVIOUS
<1>3. q \in Text /\ Len(q) = m + l /\ \A i \in 1 .. m : q[i] = p[i]
  <2>1. /\ q \in Text /\ Len(q) = Len(p) + Len(n)
        /\ \A i \in 1 .. Len(p) + Len(n) : q[i] = IF i <= Len(p) THEN p[i] ELSE n[i - Len(p)]
    BY <1>2, Glued
  <2> QED BY <1>1, <2>1
<1>4. /\ c \in [1 .. k + 2 -> 1 .. m + 1] /\ c[1] = 1 /\ c[k + 2] = m + 1
      /\ \A i \in 1 .. k + 2 : c[i] = m + 1 \/ p[c[i]] = Slash
      /\ \A i \in 1 .. k + 1 : c[i] < c[i + 1] /\ Fits(infos[i], SubSeq(p, c[i] + 1, c[i + 1] - 1))
  BY <1>1 DEF Cut, Share
<1>5. PICK d : d = [i \in 1 .. k + 2 |-> IF i = k + 2 THEN m + l + 1 ELSE c[i]]
  OBVIOUS
<1>6. /\ d[k + 2] = m + l + 1
      /\ \A i \in 1 .. k + 1 : d[i] = c[i]
  BY <1>5
<1>7. \A i \in 1 .. k + 1 : c[i] \in 1 .. m + 1 /\ c[i + 1] \in 1 .. m + 1 /\ c[i] < c[i + 1]
  BY <1>4
<1>8. \A i \in 1 .. k + 1 : c[i] \in 1 .. m
  BY <1>7
<1>9. d \in [1 .. k + 2 -> 1 .. m + l + 1]
  <2>1. ASSUME NEW i \in 1 .. k + 2
        PROVE  (IF i = k + 2 THEN m + l + 1 ELSE c[i]) \in 1 .. m + l + 1
    <3>1. i = k + 2 \/ i \in 1 .. k + 1
      OBVIOUS
    <3> QED BY <1>8, <3>1
  <2> QED BY <1>5, <2>1
<1>10. ASSUME NEW i \in 1 .. k + 2 PROVE d[i] = m + l + 1 \/ q[d[i]] = Slash
  <2>1. i = k + 2 \/ i \in 1 .. k + 1
    OBVIOUS
  <2>2. ASSUME i \in 1 .. k + 1 PROVE q[d[i]] = Slash
    <3>1. c[i] \in 1 .. m /\ i \in 1 .. k + 2
      BY <1>8, <2>2
    <3>2. p[c[i]] = Slash
      BY <1>4, <3>1
    <3> QED BY <1>3, <1>6, <2>2, <3>1, <3>2
  <2> QED BY <1>6, <2>1, <2>2
<1>11. d[1] = 1
  <2>1. 1 \in 1 .. k + 1
    OBVIOUS
  <2> QED BY <1>4, <1>6, <2>1
<1>12. ASSUME NEW i \in 1 .. k + 1
       PROVE  d[i] < d[i + 1] /\ Fits(infos[i], SubSeq(q, d[i] + 1, d[i + 1] - 1))
  <2>1. CASE i = k + 1
    <3>1. d[i + 1] = m + l + 1 /\ d[i] \in 1 .. m
      <4>1. i + 1 = k + 2
        BY <2>1
      <4> QED BY <1>6, <1>8, <4>1
    <3>2. infos[i].type = "regex"
      BY <2>1 DEF EndsOpen
    <3>3. ASSUME NEW s PROVE Fits(infos[i], s) <=> OneLine(s)
      <4>1. infos[i].type # "equals" /\ infos[i].type # "match_all"
        BY <3>2
      <4> QED BY <4>1, Zenon DEF Fits
    <3>4. PICK a \in 1 .. m : a = c[i] /\ d[i] = a
      BY <1>6, <1>8
    <3>5. PICK s : s = After(p, a)
      OBVIOUS
    <3>6. s \in Text /\ After(q, a) = s \o n
      <4>1. a \in Nat /\ a <= Len(p)
        BY <1>1, <3>4
      <4> QED BY <1>2, <3>5, <4>1, AfterIs, AfterGlued
    <3>7. OneLine(s)
      <4>1. i + 1 = k + 2 /\ (m + 1) - 1 = m
        BY <2>1
      <4>2. c[i + 1] - 1 = m
        BY <1>4, <4>1
      <4>3. Fits(infos[i], SubSeq(p, a + 1, m))
        BY <1>4, <3>4, <4>2
      <4> QED BY <1>1, <3>3, <3>5, <4>3 DEF After
    <3>8. OneLine(After(q, a))
      BY <3>6, <3>7, OneLineGlued
    <3>9. d[i + 1] - 1 = m + l
      BY <3>1
    <3>10. Fits(infos[i], SubSeq(q, d[i] + 1, d[i + 1] - 1))
      BY <1>3, <3>3, <3>4, <3>8, <3>9 DEF After
    <3> QED BY <3>1, <3>10
  <2>2. CASE i # k + 1
    <3>1. i \in 1 .. k /\ i + 1 \in 1 .. k + 1
      BY <2>2
    <3>2. PICK a \in 1 .. m, b \in 1 .. m : a = c[i] /\ b = c[i + 1] /\ a < b
      BY <1>7, <1>8, <3>1
    <3>3. d[i] = a /\ d[i + 1] = b
      BY <1>6, <3>1, <3>2
    <3>4. PICK s, t : s = SubSeq(q, a + 1, b - 1) /\ t = SubSeq(p, a + 1, b - 1)
      OBVIOUS
    <3>5. a \in Nat \ {0} /\ b \in Nat /\ b <= Len(p) + 1 /\ b <= Len(q) + 1
      BY <1>1, <1>3, <3>2
    <3>6. s \in Text /\ Len(s) = b - a - 1 /\ \A j \in 1 .. b - a - 1 : s[j] = q[a + j]
      <4>1. a < b /\ b <= Len(q) + 1 /\ q \in Text
        BY <1>3, <3>2, <3>5
      <4>2. /\ SubSeq(q, a + 1, b - 1) \in Text /\ Len(SubSeq(q, a + 1, b - 1)) = b - a - 1
            /\ \A j \in 1 .. b - a - 1 : SubSeq(q, a + 1, b - 1)[j] = q[a + j]
        BY <3>5, <4>1, ShareIs
      <4> QED BY <3>4, <4>2
    <3>7. t \in Text /\ Len(t) = b - a - 1 /\ \A j \in 1 .. b - a - 1 : t[j] = p[a + j]
      <4>1. a < b /\ b <= Len(p) + 1 /\ p \in Text
        BY <1>3, <3>2, <3>5
      <4>2. /\ SubSeq(p, a + 1, b - 1) \in Text /\ Len(SubSeq(p, a + 1, b - 1)) = b - a - 1
            /\ \A j \in 1 .. b - a - 1 : SubSeq(p, a + 1, b - 1)[j] = p[a + j]
        BY <3>5, <4>1, ShareIs
      <4> QED BY <3>4, <4>2
    <3>8. \A j \in 1 .. b - a - 1 : s[j] = t[j]
      <4>1. \A j \in 1 .. b - a - 1 : a + j \in 1 .. m
        BY <3>2
      <4> QED BY <1>3, <3>6, <3>7, <4>1
    <3>9. s = t
      BY <3>6, <3>7, <3>8, SeqEqual DEF Text
    <3>10. Fits(infos[i], t)
      BY <1>4, <3>2, <3>4
    <3> QED BY <3>2, <3>3, <3>4, <3>9, <3>10
  <2> QED BY <2>1, <2>2
<1>13. Cut(d, infos, q, k)
  <2>1. m + l + 1 = Len(q) + 1
    BY <1>3
  <2> QED BY <1>6, <1>9, <1>10, <1>11, <1>12, <2>1 DEF Cut, Share
<1>14. d[k + 1] = c[k + 1]
  <2>1. k + 1 \in 1 .. k + 1
    OBVIOUS
  <2> QED BY <1>6, <2>1
<1> QED BY <1>2, <1>13, <1>14

(* A name behind a path that matches goes to the last parameter, and to no *)
(* other.                                                                  *)
ParamsBehind(infos, p, n, key) ==
    /\ Matches(infos, p \o n)
    /\ get_param(infos, p \o n, key) = get_param(infos, p, key) \o n
    /\ get_param(infos, p, key) \in Text
    /\ get_param(infos, p, key) = <<>> \/ EndsInSlash(get_param(infos, p, key))

(* A name behind the path is behind the parameter.                         *)
LEMMA ParamBehind ==
    ASSUME NEW k \in Nat, NEW infos, EndsOpen(infos, k), NEW p \in Text, EndsInSlash(p),
           NEW n \in Text, NoSlash(n), OneLine(n), NEW key, infos[k + 1].param = key, Matches(infos, p)
    PROVE  ParamsBehind(infos, p, n, key)
<1>1. PICK c : Cut(c, infos, p, k)
  BY MatchesCut
<1>2. PICK q \in Text : q = p \o n
  BY Glued
<1>3. PICK d : Cut(d, infos, q, k) /\ d[k + 1] = c[k + 1]
  BY <1>1, <1>2, CutLonger
<1>4. Matches(infos, q)
  BY <1>2, <1>3, MatchesCut
<1>5. PICK m \in Nat : m = Len(p)
  BY DEF Text
<1>6. PICK a \in Nat : a = c[k + 1] /\ a <= m
  <2>1. c \in [1 .. k + 2 -> 1 .. m + 1] /\ c[k + 2] = m + 1 /\ c[k + 1] < c[(k + 1) + 1]
    BY <1>1, <1>5 DEF Cut
  <2>2. c[k + 1] \in 1 .. m + 1 /\ (k + 1) + 1 = k + 2
    BY <2>1
  <2> QED BY <2>1, <2>2
<1>7. get_param(infos, p, key) = After(p, a)
  BY <1>1, <1>6, ParamIs
<1>8. get_param(infos, q, key) = After(q, a)
  BY <1>2, <1>3, <1>6, ParamIs
<1>9. After(q, a) = After(p, a) \o n
  BY <1>2, <1>5, <1>6, AfterGlued
<1>10. PICK s : s = After(p, a)
  OBVIOUS
<1>11. s \in Text /\ Len(s) = m - a /\ \A i \in 1 .. m - a : s[i] = p[a + i]
  <2>1. a <= Len(p)
    BY <1>5, <1>6
  <2>2. /\ After(p, a) \in Text /\ Len(After(p, a)) = Len(p) - a
        /\ \A i \in 1 .. Len(p) - a : After(p, a)[i] = p[a + i]
    BY <1>6, <2>1, AfterIs
  <2> QED BY <1>5, <1>10, <2>2
<1>12. s = <<>> \/ EndsInSlash(s)
  <2>1. ASSUME s # <<>> PROVE s[m - a] = Slash
    <3>1. m - a \in 1 .. m - a /\ a + (m - a) = m
      BY <1>6, <1>11, <2>1, EmptySeq
    <3>2. p[m] = Slash
      BY <1>5 DEF EndsInSlash
    <3> QED BY <1>11, <3>1, <3>2
  <2> QED BY <1>11, <2>1 DEF EndsInSlash
<1> QED BY <1>2, <1>4, <1>7, <1>8, <1>9, <1>10, <1>11, <1>12 DEF ParamsBehind

-----------------------------------------------------------------------------
(* Resources.                                                              *)

(* No query begins in s.                                                   *)
NoQuery(s) == \A i \in 1 .. Len(s) : s[i] # Question

(* The path of a resource has no question mark.                            *)
LEMMA PathIs ==
    ASSUME NEW s \in Text
    PROVE  /\ Path(s) \in Text /\ NoQuery(Path(s))
           /\ Path(s) # <<>> => s # <<>> /\ Path(s)[1] = s[1]
           /\ s # <<>> /\ s[1] # Question => Path(s) # <<>>
<1>1. PICK n, k : n \in Nat /\ n = Len(s) /\ k = Find(Question, s, 1)
  BY DEF Text
<1>2. k \in 1 .. n + 1 /\ \A j \in 1 .. k - 1 : s[j] # Question
  <2>1. 1 \in Nat \ {0} /\ 1 <= Len(s) + 1
    BY <1>1
  <2> QED BY <1>1, <2>1, FindIs
<1>3. PICK p : p = SubSeq(s, 1, k - 1) /\ Path(s) = p
  BY <1>1 DEF Path, Before
<1>4. p \in Text /\ Len(p) = k - 1 /\ \A j \in 1 .. k - 1 : p[j] = s[j]
  <2>1. k - 1 \in 0 .. n
    BY <1>1, <1>2
  <2> QED BY <1>1, <1>3, <2>1 DEF Text
<1>5. NoQuery(p)
  BY <1>2, <1>4 DEF NoQuery
<1>6. p # <<>> => s # <<>> /\ p[1] = s[1]
  <2>1. p # <<>> => k - 1 >= 1
    BY <1>2, <1>4, EmptySeq
  <2>2. k - 1 >= 1 => n # 0 /\ 1 \in 1 .. k - 1
    BY <1>2
  <2> QED BY <1>1, <1>4, <2>1, <2>2, EmptySeq
<1>7. s # <<>> /\ s[1] # Question => p # <<>>
  <2>1. p = <<>> => k = 1
    BY <1>2, <1>4, EmptySeq
  <2>2. s # <<>> => 1 <= n
    BY <1>1, EmptySeq
  <2>3. k <= n => s[k] = Question
    <3>1. 1 \in Nat \ {0} /\ 1 <= Len(s) + 1
      BY <1>1
    <3> QED BY <1>1, <3>1, FindIs
  <2> QED BY <2>1, <2>2, <2>3
<1> QED BY <1>3, <1>4, <1>5, <1>6, <1>7

(* A text without a query is its own path.                                 *)
LEMMA PathSame ==
    ASSUME NEW s \in Text, NoQuery(s)
    PROVE  Path(s) = s
<1>1. PICK n \in Nat : n = Len(s)
  BY DEF Text
<1>2. Find(Question, s, 1) = n + 1
  <2>1. 1 \in Nat /\ \A j \in 1 .. Len(s) : s[j] # Question
    BY DEF NoQuery
  <2> QED BY <1>1, <2>1, FindNothing
<1>3. Path(s) = SubSeq(s, 1, n)
  <2>1. (n + 1) - 1 = n
    OBVIOUS
  <2> QED BY <1>2, <2>1 DEF Path, Before
<1> QED BY <1>1, <1>3, SubSeqFull DEF Text

(* The last slash of a path that ends in one.                              *)
LEMMA LastOfEnd ==
    ASSUME NEW p \in Text, EndsInSlash(p)
    PROVE  LastOf(Slash, p) = Len(p)
<1>1. PICK n \in Nat : n = Len(p) /\ n > 0 /\ p[n] = Slash
  BY EmptySeq DEF EndsInSlash, Text
<1> DEFINE L(j) == p[j] = Slash /\ \A k \in j + 1 .. n : p[k] # Slash
<1>2. n \in 1 .. n /\ L(n)
  BY <1>1
<1>3. ASSUME NEW j \in 1 .. n, L(j) PROVE j = n
  <2>1. j # n => n \in j + 1 .. n
    BY <1>1
  <2> QED BY <1>1, <1>3, <2>1
<1>4. LastOf(Slash, p) = CHOOSE j \in 1 .. n : L(j)
  BY <1>1, <1>2 DEF LastOf
<1> HIDE DEF L
<1> QED BY <1>1, <1>2, <1>3, <1>4

(* The characters of a text, one after the other, as the client sends them.*)
AllSent(s) == FlattenSeq([i \in 1 .. Len(s) |-> AsSent(s[i])])

LEMMA AllSentIs ==
    ASSUME NEW s \in Text
    PROVE  /\ AllSent(s) \in Text
           /\ (\A i \in 1 .. Len(s) : s[i] \in InPath) => AllSent(s) = s
<1> DEFINE SentOnes(x) == [i \in 1 .. Len(x) |-> AsSent(x[i])]
           S == {x \in Text : /\ SentOnes(x) \in Seq(Text) /\ AllSent(x) \in Text
                              /\ (\A i \in 1 .. Len(x) : x[i] \in InPath) => AllSent(x) = x}
<1>1. ASSUME NEW c \in Byte
      PROVE  AsSent(c) \in Text /\ (c \in InPath => AsSent(c) = <<c>>)
  <2>1. Code(c) \in Text /\ <<c>> \in Text
    BY CodeIs DEF Text
  <2> QED BY <2>1 DEF AsSent, AsItIs
<1>2. <<>> \in S
  <2>1. SentOnes(<<>>) = <<>> /\ <<>> \in Seq(Text) /\ <<>> \in Text
    BY EmptySeq DEF Text
  <2> QED BY <2>1, FlattenNone DEF AllSent
<1>3. ASSUME NEW x \in S, NEW c \in Byte PROVE Append(x, c) \in S
  <2>1. /\ x \in Text /\ SentOnes(x) \in Seq(Text) /\ AllSent(x) \in Text
        /\ (\A i \in 1 .. Len(x) : x[i] \in InPath) => AllSent(x) = x
    OBVIOUS
  <2>2. PICK m \in Nat : m = Len(x)
    BY <2>1 DEF Text
  <2>3. PICK y : y = Append(x, c)
    OBVIOUS
  <2>4. y \in Text /\ Len(y) = m + 1 /\ y[m + 1] = c /\ \A i \in 1 .. m : y[i] = x[i]
    BY <2>1, <2>2, <2>3 DEF Text
  <2>5. PICK f, g, a : f = SentOnes(x) /\ g = Append(f, a) /\ a = AsSent(c)
    OBVIOUS
  <2>6. a \in Text /\ f \in Seq(Text) /\ Len(f) = m /\ \A i \in 1 .. m : f[i] = AsSent(x[i])
    BY <1>1, <2>1, <2>2, <2>5
  <2>7. g \in Seq(Text) /\ Len(g) = m + 1 /\ g[m + 1] = a /\ \A i \in 1 .. m : g[i] = f[i]
    <3> DEFINE U == Text
    <3> HIDE DEF U
    <3>1. f \in Seq(U) /\ a \in U
      BY <2>6 DEF U
    <3>2. g \in Seq(U) /\ Len(g) = m + 1 /\ g[m + 1] = a /\ \A i \in 1 .. m : g[i] = f[i]
      BY <2>5, <2>6, <3>1
    <3> QED BY <3>2 DEF U
  <2>8. ASSUME NEW i \in 1 .. m + 1 PROVE g[i] = AsSent(y[i])
    <3>1. i = m + 1 \/ i \in 1 .. m
      BY <2>2
    <3> QED BY <2>4, <2>5, <2>6, <2>7, <3>1
  <2>9. SentOnes(y) = g
    <3>1. SentOnes(y) = [i \in 1 .. m + 1 |-> AsSent(y[i])]
      BY <2>4
    <3>2. g = [i \in 1 .. m + 1 |-> g[i]]
      BY <2>7
    <3> QED BY <2>8, <3>1, <3>2
  <2>10. AllSent(y) = AllSent(x) \o a
    <3>1. FlattenSeq(Append(f, a)) = FlattenSeq(f) \o a
      BY <2>6, FlattenAppend DEF Text
    <3> QED BY <2>5, <2>9, <3>1 DEF AllSent
  <2>11. AllSent(y) \in Text
    BY <2>1, <2>6, <2>10, Glued
  <2>12. ASSUME \A i \in 1 .. Len(y) : y[i] \in InPath PROVE AllSent(y) = y
    <3>1. c \in InPath
      BY <2>4, <2>12
    <3>2. AllSent(x) = x /\ a = <<c>>
      BY <1>1, <2>1, <2>2, <2>4, <2>5, <2>12, <3>1
    <3>3. y = x \o <<c>>
      BY <2>1, <2>3, AppendIsConcat DEF Text
    <3> QED BY <2>10, <3>2, <3>3
  <2> HIDE DEF SentOnes
  <2> QED BY <2>3, <2>4, <2>7, <2>9, <2>11, <2>12
<1>4. S = Seq(Byte)
  <2>1. S \in SUBSET Seq(Byte)
    BY DEF Text
  <2> HIDE DEF S
  <2> QED BY <1>2, <1>3, <2>1, SequenceInduction
<1>5. s \in S
  <2> HIDE DEF S
  <2> QED BY <1>4 DEF Text
<1> QED BY <1>5

(* What the client sends of a link is a text, and the link itself where it *)
(* has no characters but those of a path.                                  *)
LEMMA SentIs ==
    ASSUME NEW s \in Text
    PROVE  /\ Sent(s) \in Text
           /\ (\A i \in 1 .. Len(s) : s[i] \in InPath) => Sent(s) = s
<1>1. PICK n, k : n \in Nat /\ n = Len(s) /\ k = Find(Hash, s, 1)
  BY DEF Text
<1>2. k \in 1 .. n + 1
  <2>1. 1 \in Nat \ {0} /\ 1 <= Len(s) + 1
    BY <1>1
  <2> QED BY <1>1, <2>1, FindIs
<1>3. PICK p : p = SubSeq(s, 1, k - 1)
  OBVIOUS
<1>4. p \in Text
  <2>1. k - 1 \in 0 .. n
    BY <1>1, <1>2
  <2> QED BY <1>1, <1>3, <2>1 DEF Text
<1>5. Sent(s) = AllSent(p)
  BY <1>1, <1>3 DEF Sent, AllSent, Before
<1>6. ASSUME \A i \in 1 .. Len(s) : s[i] \in InPath PROVE Sent(s) = s
  <2>1. Hash \notin InPath
    BY DEF Hash, InPath, Unreserved, Digit, Lower, Upper, Dot, Equal
  <2>2. \A i \in 1 .. Len(s) : s[i] # Hash
    BY <1>6, <2>1
  <2>3. k = n + 1
    BY <1>1, <2>2, FindNothing
  <2>4. p = s
    <3>1. k - 1 = n
      BY <1>1, <2>3
    <3> QED BY <1>1, <1>3, <3>1, SubSeqFull DEF Text
  <2> QED BY <1>5, <1>6, <2>4, AllSentIs
<1> QED BY <1>4, <1>5, <1>6, AllSentIs

(* What the client makes of the link to a name, in a listing whose path    *)
(* ends in a slash.                                                        *)
LEMMA LinkResolved ==
    ASSUME NEW s \in Text, EndsInSlash(Path(s)), NEW n \in Text,
           \A i \in 1 .. Len(n) : n[i] \in InPath
    PROVE  FollowedFrom(s, Link(n)) = Path(s) \o n
<1>1. PICK p \in Text : p = Path(s)
  BY PathIs
<1>2. PICK m \in Nat, k \in Nat : m = Len(p) /\ k = Len(n)
  BY <1>1 DEF Text
<1>3. PICK b : b = <<Dot, Slash>>
  OBVIOUS
<1>4. b \in Text /\ Len(b) = 2 /\ b[1] = Dot
  BY <1>3 DEF Text, Byte, Dot, Slash
<1>5. PICK l : l = b \o n
  OBVIOUS
<1>6. l \in Text /\ Len(l) = 2 + k /\ \A i \in 1 .. 2 + k : l[i] = IF i <= 2 THEN b[i] ELSE n[i - 2]
  <2>1. /\ l \in Text /\ Len(l) = Len(b) + Len(n)
        /\ \A i \in 1 .. Len(b) + Len(n) : l[i] = IF i <= Len(b) THEN b[i] ELSE n[i - Len(b)]
    BY <1>4, <1>5, Glued
  <2> QED BY <1>2, <1>4, <2>1
<1>7. ~IsPrefix(<<Slash>>, l)
  <2>1. 1 \in 1 .. 2 + k
    BY <1>2
  <2>2. l[1] = Dot
    BY <1>4, <1>6, <2>1
  <2>3. Slash \in Byte /\ Dot # Slash
    BY DEF Slash, Byte, Dot
  <2> QED BY <1>6, <2>2, <2>3, PrefixOne
<1>8. After(l, 2) = n
  <2>1. After(l, 2) = After(b, 2) \o n
    <3>1. 2 \in Nat /\ 2 <= Len(b)
      BY <1>4
    <3> QED BY <1>4, <1>5, <3>1, AfterGlued
  <2>2. After(b, 2) = <<>>
    <3>1. 2 \in Nat /\ 2 <= Len(b) /\ Len(b) - 2 = 0
      BY <1>4
    <3>2. After(b, 2) \in Text /\ Len(After(b, 2)) = 0
      BY <1>4, <3>1, AfterIs
    <3> QED BY <3>2, EmptySeq DEF Text
  <2> QED BY <2>1, <2>2, ConcatEmptySeq DEF Text
<1>9. Before(p, LastOf(Slash, p) + 1) = p
  <2>1. LastOf(Slash, p) = m
    BY <1>1, <1>2, LastOfEnd
  <2>2. (m + 1) - 1 = m
    OBVIOUS
  <2>3. SubSeq(p, 1, m) = p
    BY <1>1, <1>2, SubSeqFull DEF Text
  <2> QED BY <2>1, <2>2, <2>3 DEF Before
<1>10. Link(n) = l
  BY <1>3, <1>5 DEF Link
<1>11. Sent(n) = n
  BY SentIs
<1> QED BY <1>1, <1>7, <1>8, <1>9, <1>10, <1>11 DEF FollowedFrom

-----------------------------------------------------------------------------
(* The links of a listing.                                                 *)

(* serve_dir is given a uri and a directory that end in a slash, and no    *)
(* regular expression but its own.                                         *)
ServedAsDirectory ==
    /\ Prefix \in Text /\ EndsInSlash(Prefix) /\ PlainParts(Prefix)
    /\ Dir \in Text /\ EndsInSlash(Dir)
    /\ \A r \in Requests : r.resource \in Text

(* The client has a listing.                                               *)
Links == pc = "done" /\ "links" \in DOMAIN answer

(* The router chooses the handler of the directory.                        *)
Chosen == IsUri(request.resource) /\ Matches(DirRoute, Path(request.resource))

(* What is in the file system has the names it started with.               *)
WellNamed ==
    /\ \A name \in DOMAIN site.contents \cup DOMAIN history[1] : ProperName(name)
    /\ site.kind # "os" => \A name \in DOMAIN site.contents : site.contents[name] # "special"

(* A listing is that of the directory the path says.                       *)
Listing ==
    /\ request.resource \in Text
    /\ pc \in {"get_file"} \cup Looking \/ Links => Chosen
    /\ pc \in Looking \/ Links =>
          /\ ProperName(entry.name)
          /\ EndsInSlash(Path(request.resource)) => entry.name = Said(site, FilePath)
    /\ pc = "get_files" \/ Links => allow_listing
    /\ Links =>
          /\ Listable(site, entry.name)
          /\ answer.links = {Link(n) : n \in GetFiles(site, entry.name)}

(* A link was followed, and nothing has changed since.                     *)
SentAsItIs == ToSet(followed.link) \subseteq InPath \cup {Slash}
Followed == EndsInSlash(followed.from) /\ SentAsItIs /\ Len(history) = 1

(* The link that was followed leads to something, and the answer says so.  *)
Leading ==
    Followed =>
        /\ Chosen /\ allow_listing /\ request.since = "none"
        /\ Exists(site, FilePath)
        /\ site.contents[NameOf(site, FilePath)] # "special"
        /\ LinksLead

(* The inductive invariant of LinksLead.                                   *)
LinkInv == Inv /\ WellNamed /\ Listing /\ Leading

(* The invariant holds at first.                                           *)
LEMMA LinkInit == ServedAsDirectory /\ Init => LinkInv
<1> SUFFICES ASSUME ServedAsDirectory, Init PROVE LinkInv
    OBVIOUS
<1>1. /\ history = <<site.contents>> /\ pc = "start" /\ site \in Sites /\ followed = NoLink
      /\ request \in Requests
  BY DEF Init
<1>2. Inv
  BY InitInv
<1>3. WellNamed
  <2>1. history[1] = site.contents
    BY <1>1
  <2>2. \A name \in DOMAIN site.contents : ProperName(name)
    BY <1>1, SitesHoldFiles
  <2>3. site.kind # "os" => \A name \in DOMAIN site.contents : site.contents[name] # "special"
    BY <1>1, SitesHoldFiles
  <2> QED BY <2>1, <2>2, <2>3 DEF WellNamed
<1>4. Listing
  BY <1>1 DEF Listing, Links, Looking, ServedAsDirectory
<1>5. Leading
  BY <1>1 DEF Leading, Followed, NoLink, EndsInSlash
<1> QED BY <1>2, <1>3, <1>4, <1>5 DEF LinkInv

(* The path on the file system ends in a slash when that of the request    *)
(* does, and a name behind the one is a name behind the other.             *)
PathsBehind(p, n) ==
    /\ Matches(DirRoute, p \o n)
    /\ Dir \o get_param(DirRoute, p, FsPath) \in Text
    /\ EndsInSlash(Dir \o get_param(DirRoute, p, FsPath))
    /\ Dir \o get_param(DirRoute, p \o n, FsPath) = (Dir \o get_param(DirRoute, p, FsPath)) \o n

(* A name behind the path of a request is behind the path on the file      *)
(* system.                                                                 *)
LEMMA FilePathBehind ==
    ASSUME ServedAsDirectory, NEW p \in Text, EndsInSlash(p), NEW n \in Text, NoSlash(n), OneLine(n),
           Matches(DirRoute, p)
    PROVE  PathsBehind(p, n)
<1>1. PICK k \in Nat : EndsOpen(DirRoute, k) /\ DirRoute[k + 1].param = FsPath
  BY DirRouteIs DEF ServedAsDirectory
<1>2. PICK g : g = get_param(DirRoute, p, FsPath)
  OBVIOUS
<1>3. /\ Matches(DirRoute, p \o n) /\ get_param(DirRoute, p \o n, FsPath) = g \o n
      /\ g \in Text /\ (g = <<>> \/ EndsInSlash(g))
  <2>1. PICK infos, key : infos = DirRoute /\ key = FsPath
    OBVIOUS
  <2>2. EndsOpen(infos, k) /\ infos[k + 1].param = key /\ Matches(infos, p)
    BY <1>1, <2>1
  <2>3. /\ Matches(infos, p \o n)
        /\ get_param(infos, p \o n, key) = get_param(infos, p, key) \o n
        /\ get_param(infos, p, key) \in Text
        /\ get_param(infos, p, key) = <<>> \/ EndsInSlash(get_param(infos, p, key))
    <3>1. ParamsBehind(infos, p, n, key)
      BY <1>1, <2>2, ParamBehind
    <3> QED BY <3>1 DEF ParamsBehind
  <2> QED BY <1>2, <2>1, <2>3
<1>4. PICK a, m, l : m \in Nat /\ l \in Nat /\ a = Dir \o g /\ m = Len(Dir) /\ l = Len(g)
  <2>1. Dir \in Text
    BY DEF ServedAsDirectory
  <2>2. Len(Dir) \in Nat /\ Len(g) \in Nat
    BY <1>3, <2>1 DEF Text
  <2> QED BY <2>2
<1>5. a \in Text /\ Len(a) = m + l /\ \A i \in 1 .. m + l : a[i] = IF i <= m THEN Dir[i] ELSE g[i - m]
  <2>1. /\ a \in Text /\ Len(a) = Len(Dir) + Len(g)
        /\ \A i \in 1 .. Len(Dir) + Len(g) : a[i] = IF i <= Len(Dir) THEN Dir[i] ELSE g[i - Len(Dir)]
    BY <1>3, <1>4, Glued DEF ServedAsDirectory
  <2> QED BY <1>4, <2>1
<1>6. m > 0 /\ Dir[m] = Slash
  BY <1>4, EmptySeq DEF ServedAsDirectory, EndsInSlash, Text
<1>7. a[m + l] = Slash /\ a # <<>>
  <2>1. CASE l = 0
    BY <1>4, <1>5, <1>6, <2>1, EmptySeq
  <2>2. CASE l # 0
    <3>1. m + l \in 1 .. m + l /\ ~(m + l <= m) /\ (m + l) - m = l
      BY <1>4, <2>2
    <3>2. g[l] = Slash
      BY <1>3, <1>4, <2>2, EmptySeq DEF EndsInSlash
    <3> QED BY <1>5, <1>6, <3>1, <3>2, EmptySeq
  <2> QED BY <2>1, <2>2
<1>8. Dir \o (g \o n) = a \o n
  <2>1. Dir \in Text /\ g \in Text /\ n \in Text
    BY <1>3 DEF ServedAsDirectory
  <2>2. (Dir \o g) \o n = Dir \o (g \o n)
    BY <2>1, GluedInTurn
  <2> QED BY <1>4, <2>2
<1> QED BY <1>2, <1>3, <1>4, <1>5, <1>7, <1>8 DEF EndsInSlash, PathsBehind

(* What has a name behind that of a directory is one of its entries.       *)
LEMMA AfterAll ==
    ASSUME NEW r \in Text, NEW x \in Text
    PROVE  After(r \o x, Len(r)) = x
<1>1. PICK m : m \in Nat /\ m = Len(r)
  BY DEF Text
<1>2. After(r \o x, m) = After(r, m) \o x
  <2>1. m \in Nat /\ m <= Len(r)
    BY <1>1
  <2> QED BY <2>1, AfterGlued
<1>3. After(r, m) = <<>>
  <2>1. m <= Len(r) /\ Len(r) - m = 0
    BY <1>1
  <2>2. After(r, m) \in Text /\ Len(After(r, m)) = 0
    BY <1>1, <2>1, AfterIs
  <2> QED BY <2>2, EmptySeq DEF Text
<1> QED BY <1>1, <1>2, <1>3, ConcatEmptySeq DEF Text

(* What has a name behind that of a directory, and at most a slash behind  *)
(* it, is an entry of it.                                                  *)
LEMMA IsEntryOf ==
    ASSUME NEW r \in Text, NEW x \in Text, x # <<>>, \A j \in 1 .. Len(x) - 1 : x[j] # Slash
    PROVE  IsEntry(r, r \o x)
<1>1. PICK m, k, u : m \in Nat /\ m = Len(r) /\ k \in Nat \ {0} /\ k = Len(x) /\ u = r \o x
  BY EmptySeq DEF Text
<1>2. u \in Text /\ Len(u) = m + k /\ \A i \in 1 .. m : u[i] = r[i]
  <2>1. /\ u \in Text /\ Len(u) = Len(r) + Len(x)
        /\ \A i \in 1 .. Len(r) + Len(x) : u[i] = IF i <= Len(r) THEN r[i] ELSE x[i - Len(r)]
    BY <1>1, Glued
  <2> QED BY <1>1, <2>1
<1>3. IsStrictPrefix(r, u)
  <2>1. IsPrefix(r, u)
    <3>1. Len(r) <= Len(u) /\ \A i \in 1 .. Len(r) : u[i] = r[i]
      BY <1>1, <1>2
    <3> QED BY <1>2, <3>1, PrefixIs
  <2>2. r # u
    BY <1>1, <1>2
  <2> QED BY <2>1, <2>2 DEF IsStrictPrefix
<1>4. After(u, Len(r)) = x
  BY <1>1, AfterAll
<1>5. Find(Slash, x, 1) >= k
  <2>1. 1 \in Nat \ {0} /\ 1 <= Len(x) + 1
    BY <1>1
  <2>2. Find(Slash, x, 1) \in 1 .. k + 1 /\ (Find(Slash, x, 1) <= k => x[Find(Slash, x, 1)] = Slash)
    BY <1>1, <2>1, FindIs
  <2>3. ASSUME Find(Slash, x, 1) < k PROVE FALSE
    <3>1. Find(Slash, x, 1) \in 1 .. Len(x) - 1
      BY <1>1, <2>2, <2>3
    <3>2. x[Find(Slash, x, 1)] # Slash
      BY <3>1
    <3> QED BY <1>1, <2>2, <2>3, <3>2
  <2> QED BY <1>1, <2>2, <2>3
<1>6. Len(u) - Len(r) = k
  BY <1>1, <1>2
<1> QED BY <1>1, <1>3, <1>4, <1>5, <1>6 DEF IsEntry

(* A name behind that of a directory is that of an entry.                  *)
LEMMA EntryMade ==
    ASSUME NEW r \in Text, NEW n \in NameText
    PROVE  IsEntry(r, r \o n) /\ IsEntry(r, Append(r \o n, Slash))
<1>1. n \in Text /\ NoSlash(n) /\ n # <<>> /\ Slash \in Byte
  BY NameIs DEF Slash, Byte
<1>2. PICK k : k \in Nat /\ k = Len(n)
  BY <1>1 DEF Text
<1>3. IsEntry(r, r \o n)
  <2>1. \A j \in 1 .. Len(n) - 1 : n[j] # Slash
    BY <1>1, <1>2 DEF NoSlash
  <2> QED BY <1>1, <2>1, IsEntryOf
<1>4. PICK x : x = Append(n, Slash)
  OBVIOUS
<1>5. x \in Text /\ Len(x) = k + 1 /\ \A j \in 1 .. k : x[j] = n[j]
  BY <1>1, <1>2, <1>4, AppendProperties DEF Text
<1>6. IsEntry(r, r \o x)
  <2>1. \A j \in 1 .. Len(x) - 1 : x[j] # Slash
    <3>1. Len(x) - 1 = k
      BY <1>2, <1>5
    <3> QED BY <1>1, <1>2, <1>5, <3>1 DEF NoSlash
  <2>2. x # <<>>
    BY <1>2, <1>5, EmptySeq
  <2> QED BY <1>5, <2>1, <2>2, IsEntryOf
<1>7. r \o x = Append(r \o n, Slash)
  <2>1. PICK y, v : y = <<Slash>> /\ y \in Text /\ v = r \o n /\ v \in Text
    <3>1. <<Slash>> \in Text /\ r \o n \in Text
      BY <1>1, Glued DEF Text
    <3> QED BY <3>1
  <2>2. (r \o n) \o y = r \o (n \o y)
    BY <1>1, <2>1, GluedInTurn
  <2>3. n \o y = x /\ v \o y = Append(v, Slash)
    BY <1>1, <1>4, <2>1, AppendIsConcat DEF Text
  <2> QED BY <2>1, <2>2, <2>3
<1> QED BY <1>3, <1>6, <1>7

(* Where the link to a name in a listing leads.                            *)
LEMMA LinkFound ==
    ASSUME ServedAsDirectory, WellNamed, NEW s \in Text, IsUri(s), Matches(DirRoute, Path(s)),
           EndsInSlash(Path(s)), NEW dir, dir = Said(site, Dir \o get_param(DirRoute, Path(s), FsPath)),
           ProperName(dir), Listable(site, dir), NEW e \in Entries(site, dir),
           ToSet(Link(ShortName(dir, e))) \subseteq InPath \cup {Slash}
    PROVE  \E q \in Text :
              /\ q = FollowedFrom(s, Link(ShortName(dir, e)))
              /\ IsUri(q) /\ Matches(DirRoute, Path(q))
              /\ Exists(site, Dir \o get_param(DirRoute, Path(q), FsPath))
              /\ site.contents[NameOf(site, Dir \o get_param(DirRoute, Path(q), FsPath))] # "special"
<1>1. PICK p \in Text : p = Path(s) /\ NoQuery(p) /\ p # <<>> /\ p[1] = Slash
  <2>1. Path(s) \in Text /\ NoQuery(Path(s))
    BY PathIs
  <2>2. Slash # Question
    BY DEF Slash, Question
  <2>3. s # <<>> /\ s[1] = Slash
    BY DEF IsUri
  <2>4. Path(s) # <<>> /\ Path(s)[1] = Slash
    BY <2>2, <2>3, PathIs
  <2> QED BY <2>1, <2>4
<1>2. PICK fp : fp = Dir \o get_param(DirRoute, p, FsPath)
  OBVIOUS
<1>3. PICK n : n = ShortName(dir, e)
  OBVIOUS
<1>4. ProperFiles(site) /\ ProperName(e) /\ e \in DOMAIN site.contents /\ IsEntry(dir, e)
  BY DEF WellNamed, ProperFiles, Entries
<1>5. <<>> \in Text /\ NoSlash(<<>>) /\ OneLine(<<>>)
  BY DEF Text, NoSlash, OneLine
<1>6. fp \in Text /\ EndsInSlash(fp)
  <2>1. PathsBehind(p, <<>>)
    BY <1>1, <1>5, FilePathBehind
  <2> QED BY <1>2, <2>1 DEF PathsBehind
<1>7. dir = Said(site, fp) /\ dir \in Text /\ EndsInSlash(dir)
  <2>1. dir = Said(site, fp)
    BY <1>1, <1>2
  <2>2. dir \in Text /\ dir # <<>>
    BY ProperIs
  <2> QED BY <1>6, <2>1, <2>2, SaidEnds
<1>8. n \in NameText /\ (e = dir \o n \/ e = Append(dir \o n, Slash))
  BY <1>3, <1>4, <1>7, EntryListed
<1>9. n \in Text /\ NoSlash(n)
  BY <1>8, NameIs
<1>0. ASSUME NEW i \in 1 .. Len(n) PROVE n[i] \in InPath
  <2>1. PICK b, l : b = <<Dot, Slash>> /\ l = Link(n) /\ l = b \o n
    BY DEF Link
  <2>2. b \in Text /\ Len(b) = 2
    BY <2>1 DEF Text, Byte, Dot, Slash
  <2>3. /\ l \in Text /\ Len(l) = Len(b) + Len(n) /\ Len(n) \in Nat
        /\ \A j \in 1 .. Len(b) + Len(n) : l[j] = IF j <= Len(b) THEN b[j] ELSE n[j - Len(b)]
    BY <1>9, <2>1, <2>2, Glued
  <2>4. 2 + i \in 1 .. 2 + Len(n) /\ ~(2 + i <= 2) /\ (2 + i) - 2 = i
    BY <2>3
  <2>5. l[2 + i] = n[i] /\ 2 + i \in 1 .. Len(l)
    BY <2>2, <2>3, <2>4
  <2>6. n[i] \in ToSet(l)
    BY <2>3, <2>5 DEF ToSet, Text
  <2> QED BY <1>3, <1>9, <2>1, <2>6 DEF NoSlash
<1>10. PICK q : q = p \o n
  OBVIOUS
<1>11. q = FollowedFrom(s, Link(n))
  BY <1>0, <1>1, <1>9, <1>10, LinkResolved
<1>12. PICK m, l : m \in Nat /\ l \in Nat /\ m = Len(p) /\ l = Len(n)
  <2>1. Len(p) \in Nat /\ Len(n) \in Nat
    BY <1>1, <1>9 DEF Text
  <2> QED BY <2>1
<1>13. q \in Text /\ Len(q) = m + l /\ \A i \in 1 .. m + l : q[i] = IF i <= m THEN p[i] ELSE n[i - m]
  <2>1. /\ q \in Text /\ Len(q) = Len(p) + Len(n)
        /\ \A i \in 1 .. Len(p) + Len(n) : q[i] = IF i <= Len(p) THEN p[i] ELSE n[i - Len(p)]
    BY <1>1, <1>9, <1>10, Glued
  <2> QED BY <1>12, <2>1
<1>14. IsUri(q)
  <2>1. m > 0
    BY <1>1, <1>12, EmptySeq DEF Text
  <2>2. q # <<>> /\ q[1] = Slash
    BY <1>1, <1>12, <1>13, <2>1, EmptySeq
  <2> QED BY <2>2 DEF IsUri
<1>15. NoQuery(q)
  <2>1. Question \notin InPath
    BY DEF Question, InPath, Unreserved, Digit, Lower, Upper, Dot, Equal
  <2>2. \A i \in 1 .. l : n[i] # Question
    BY <1>0, <1>12, <2>1
  <2>3. ASSUME NEW i \in 1 .. m + l PROVE q[i] # Question
    <3>1. i <= m => i \in 1 .. m
      BY <1>12
    <3>2. ~(i <= m) => i - m \in 1 .. l
      BY <1>12
    <3> QED BY <1>1, <1>12, <1>13, <2>2, <3>1, <3>2 DEF NoQuery
  <2> QED BY <1>13, <2>3 DEF NoQuery
<1>16. Path(q) = q
  BY <1>13, <1>15, PathSame
<1>17. OneLine(n)
  <2>1. InPath \cap LineEnd = {}
    BY DEF LineEnd, InPath, Unreserved, Digit, Lower, Upper, Dot, Equal
  <2> QED BY <1>0, <2>1 DEF OneLine
<1>18. Matches(DirRoute, q) /\ Dir \o get_param(DirRoute, q, FsPath) = fp \o n
  <2>1. PathsBehind(p, n)
    BY <1>1, <1>9, <1>17, FilePathBehind
  <2> QED BY <1>2, <1>10, <2>1 DEF PathsBehind
<1>19. Exists(site, fp \o n) /\ NameOf(site, fp \o n) \in {dir \o n, Append(dir \o n, Slash)}
       /\ NameOf(site, fp \o n) \in DOMAIN site.contents
  BY <1>4, <1>6, <1>7, <1>8, EntryFound
<1>20. site.contents[NameOf(site, fp \o n)] # "special"
  <2>1. PICK o : o = NameOf(site, fp \o n)
    OBVIOUS
  <2>2. site.kind # "os" => site.contents[o] # "special"
    BY <1>19, <2>1 DEF WellNamed
  <2>3. ASSUME site.kind = "os" PROVE site.contents[o] # "special"
    <3>1. IsEntry(dir, o)
      BY <1>7, <1>8, <1>19, <2>1, EntryMade
    <3> QED BY <1>19, <2>1, <2>3, <3>1 DEF Listable, Entries
  <2> QED BY <2>1, <2>2, <2>3
<1> QED BY <1>3, <1>11, <1>13, <1>14, <1>16, <1>18, <1>19, <1>20

(* What a step leaves alone if it changes neither the files nor the        *)
(* request.                                                                *)
LEMMA Same ==
    ASSUME site' = site, request' = request
    PROVE  /\ Chosen' <=> Chosen
           /\ FilePath' = FilePath
           /\ Exists(site, FilePath)' <=> Exists(site, FilePath)
           /\ Said(site, FilePath)' = Said(site, FilePath)
           /\ NameOf(site, FilePath)' = NameOf(site, FilePath)
BY DEF Chosen, FilePath

(* The route of serve_dir has the parameter on_request asks for.           *)
LEMMA HasParam ==
    ASSUME ServedAsDirectory
    PROVE  has_param(DirRoute, FsPath)
<1>1. PICK k \in Nat : EndsOpen(DirRoute, k) /\ DirRoute[k + 1].param = FsPath
  BY DirRouteIs DEF ServedAsDirectory
<1>2. Len(DirRoute) = k + 1 /\ k + 1 \in 1 .. k + 1
  BY <1>1 DEF EndsOpen
<1>3. FsPath # <<>>
  BY DEF FsPath
<1> QED BY <1>1, <1>2, <1>3 DEF has_param

(* What others do to a file.                                               *)
LEMMA Changed ==
    ASSUME Change
    PROVE  \E f \in DOMAIN history[1] :
              /\ history[1][f] \in Version /\ site'.kind = "os"
              /\ \/ site'.contents = Restrict(site.contents, DOMAIN site.contents \ {f})
                 \/ \E v \in Version : site'.contents = [x \in DOMAIN site.contents \cup {f} |->
                                                           IF x = f THEN v ELSE site.contents[x]]
<1>1. PICK f \in {n \in DOMAIN history[1] : history[1][n] \in Version} :
         \/ site' = [kind |-> "os", contents |-> Removed(f)]
         \/ \E v \in Version : site' = [kind |-> "os", contents |-> Written(f, v)]
  BY DEF Change
<1>2. /\ site'.kind = "os"
      /\ site'.contents = Removed(f) \/ \E v \in Version : site'.contents = Written(f, v)
  BY <1>1
<1> QED BY <1>1, <1>2 DEF Removed, Written

(* Steps before the handler has an entry.                                  *)
LEMMA LinkRoute ==
    ASSUME ServedAsDirectory, LinkInv, InvalidUri \/ RouteLiteral \/ NoRoute \/ CheckExists
    PROVE  LinkInv'
<1>0. Inv'
  BY NoFileInv DEF LinkInv
<1>1. UNCHANGED <<site, allow_listing, request, history, followed, entry>> /\ pc = "start"
      /\ pc' \in {"done", "get_file"}
  BY DEF InvalidUri, RouteLiteral, NoRoute, CheckExists, Ends, Goes
<1>2. WellNamed'
  BY <1>1 DEF LinkInv, WellNamed
<1>3. ~Links'
  <2>1. pc' = "done" => answer' \in {Failed(404), Failed(500)}
                        \/ \E uri \in Literals : answer' = [status |-> 200, by |-> uri]
    BY DEF InvalidUri, RouteLiteral, NoRoute, CheckExists, Ends, Goes
  <2> QED BY <2>1 DEF Links, Failed
<1>4. pc' = "get_file" => Chosen'
  <2>1. pc' = "get_file" => Chosen
    BY DEF InvalidUri, RouteLiteral, NoRoute, CheckExists, Ends, Chosen
  <2> QED BY <1>1, <2>1, Same
<1>5. Listing'
  <2>1. request'.resource \in Text
    BY <1>1 DEF LinkInv, Listing
  <2> QED BY <1>1, <1>3, <1>4, <2>1 DEF Listing, Looking
<1>6. Leading'
  <2> SUFFICES ASSUME Followed
               PROVE  Leading'
      BY <1>1 DEF Leading, Followed, SentAsItIs
  <2>1. /\ Chosen /\ allow_listing /\ request.since = "none" /\ Exists(site, FilePath)
        /\ site.contents[NameOf(site, FilePath)] # "special"
    BY DEF LinkInv, Leading
  <2>2. has_param(DirRoute, FsPath)
    BY HasParam
  <2>3. answer'.status = 200 \/ pc' # "done"
    <3>1. ~InvalidUri /\ ~NoRoute
      BY <2>1 DEF InvalidUri, NoRoute, Chosen
    <3>2. RouteLiteral => answer'.status = 200
      BY DEF RouteLiteral, Ends
    <3>3. CheckExists => pc' = "get_file"
      BY <2>1, <2>2, Zenon DEF CheckExists, Goes
    <3> QED BY <3>1, <3>2, <3>3
  <2>4. LinksLead'
    BY <2>3 DEF LinksLead
  <2> QED BY <1>1, <2>1, <2>4, Same DEF Leading
<1> QED BY <1>0, <1>2, <1>5, <1>6 DEF LinkInv

(* get_file finds what the path says.                                      *)
LEMMA LinkCanonical ==
    ASSUME ServedAsDirectory, LinkInv, Canonical
    PROVE  LinkInv'
<1>0. Inv'
  BY CanonicalInv DEF LinkInv
<1>1. UNCHANGED <<site, allow_listing, request, history, followed>> /\ pc = "get_file"
  BY DEF Canonical, Ends, Goes
<1>2. WellNamed'
  BY <1>1 DEF LinkInv, WellNamed
<1>3. CASE ~Exists(site, FilePath)
  <2>1. pc' = "done" /\ answer' = Failed(500)
    BY <1>3 DEF Canonical, Ends
  <2>2. Listing'
    BY <1>1, <2>1 DEF LinkInv, Listing, Links, Looking, Failed
  <2>3. Leading'
    BY <1>1, <1>3 DEF LinkInv, Leading, Followed, SentAsItIs
  <2> QED BY <1>0, <1>2, <2>2, <2>3 DEF LinkInv
<1>4. CASE Exists(site, FilePath)
  <2>1. entry'.name = NameOf(site, FilePath) /\ pc' = "status"
    BY <1>1, <1>4 DEF Canonical, Goes, LinkInv, Inv, Held, NoEntry
  <2>2. entry'.name \in DOMAIN site.contents
    BY <1>4, <2>1, NameIn
  <2>3. Listing'
    <3>1. request'.resource \in Text
      BY <1>1 DEF LinkInv, Listing
    <3>2. Chosen'
      BY <1>1, Same DEF LinkInv, Listing
    <3>3. ProperName(entry'.name)
      BY <2>2 DEF LinkInv, WellNamed
    <3>4. ASSUME EndsInSlash(Path(request.resource)) PROVE entry'.name = Said(site, FilePath)
      <4>1. PICK p : p = Path(request.resource)
        OBVIOUS
      <4>2. p \in Text /\ EndsInSlash(p) /\ Matches(DirRoute, p)
        BY <1>1, <3>4, <4>1, PathIs DEF LinkInv, Listing, Chosen
      <4>3. <<>> \in Text /\ NoSlash(<<>>) /\ OneLine(<<>>)
        BY DEF Text, NoSlash, OneLine
      <4>4. FilePath \in Text /\ EndsInSlash(FilePath)
        <5>1. PathsBehind(p, <<>>)
          BY <4>2, <4>3, FilePathBehind
        <5> QED BY <4>1, <5>1 DEF PathsBehind, FilePath
      <4>5. ProperFiles(site)
        BY DEF LinkInv, WellNamed, ProperFiles
      <4> QED BY <1>4, <2>1, <4>4, <4>5, DirNamed
    <3>5. ~Links'
      BY <2>1 DEF Links
    <3> QED BY <1>1, <2>1, <3>1, <3>2, <3>3, <3>4, <3>5, Same DEF Listing
  <2>4. Leading'
    <3> SUFFICES ASSUME Followed PROVE Leading'
        BY <1>1 DEF Leading, Followed, SentAsItIs
    <3>1. /\ Chosen /\ allow_listing /\ request.since = "none" /\ Exists(site, FilePath)
          /\ site.contents[NameOf(site, FilePath)] # "special"
      BY DEF LinkInv, Leading
    <3> QED BY <1>1, <2>1, <3>1, Same DEF Leading, LinksLead
  <2> QED BY <1>0, <1>2, <2>3, <2>4 DEF LinkInv
<1> QED BY <1>3, <1>4

(* What a followed link leads to stays what it is.                         *)
LEMMA LedTo ==
    ASSUME LinkInv, Followed, pc \in Looking
    PROVE  /\ ~Gone /\ entry.name = NameOf(site, FilePath)
           /\ allow_listing /\ request.since = "none"
           /\ site.contents[entry.name] \in Version \cup {"dir"}
           /\ pc # "status" => entry.is = Type(site.contents[entry.name])
<1>1. /\ allow_listing /\ request.since = "none" /\ Exists(site, FilePath)
      /\ site.contents[NameOf(site, FilePath)] # "special"
  BY DEF LinkInv, Leading
<1>2. /\ Len(history) = 1 /\ entry.name = NameOf(site, FilePath)
      /\ pc # "status" => entry.is = Type(site.contents[entry.name])
  BY DEF Followed, LinkInv, Inv, Quiet
<1>3. entry.name \in DOMAIN site.contents
  BY <1>1, <1>2, NameIn
<1>4. site.contents[entry.name] \in Content
  BY <1>3 DEF LinkInv, Inv, Past
<1> QED BY <1>1, <1>2, <1>3, <1>4 DEF Gone, Content

(* A look at what was found, and an answer without links.                  *)
LEMMA LinkLook ==
    ASSUME LinkInv, Inv', UNCHANGED <<site, allow_listing, request, history, followed>>,
           entry'.name = entry.name, pc \in Looking,
           \/ pc' \in Looking /\ (pc' = "get_files" => allow_listing)
           \/ pc' = "done" /\ "links" \notin DOMAIN answer' /\ (Followed => answer'.status = 200)
    PROVE  LinkInv'
<1>1. WellNamed'
  BY DEF LinkInv, WellNamed
<1>2. ~Links'
  BY DEF Links, Looking
<1>3. Listing'
  BY <1>2, Same DEF LinkInv, Listing, Looking
<1>4. Leading'
  <2> SUFFICES ASSUME Followed PROVE Leading'
      BY DEF Leading, Followed, SentAsItIs
  <2>1. /\ Chosen /\ allow_listing /\ request.since = "none" /\ Exists(site, FilePath)
        /\ site.contents[NameOf(site, FilePath)] # "special"
    BY DEF LinkInv, Leading
  <2>2. LinksLead'
    BY DEF LinksLead, Looking
  <2> QED BY <2>1, <2>2, Same DEF Leading
<1> QED BY <1>1, <1>3, <1>4 DEF LinkInv

(* The looks of get_file, and what the handler makes of them.              *)
LEMMA LinkLooks ==
    ASSUME LinkInv, Status \/ LastWriteTime \/ FileSize \/ Decide
    PROVE  LinkInv'
<1>0. Inv'
  BY StatusInv, LastWriteTimeInv, FileSizeInv, DecideInv DEF LinkInv
<1>1. /\ UNCHANGED <<site, allow_listing, request, history, followed>>
      /\ pc \in {"status", "last_write_time", "file_size", "is_file"} /\ pc \in Looking
  BY DEF Status, LastWriteTime, FileSize, Decide, Ends, Goes, Looking
<1>2. entry'.name = entry.name
  BY DEF Status, LastWriteTime, FileSize, Decide, LinkInv, Inv, Held
<1>3. ASSUME Followed
      PROVE  /\ ~Gone
             /\ pc = "is_file" /\ entry.is = "file" => ~NotModified(entry)
             /\ pc = "is_file" => entry.is = "file" \/ (entry.is = "dir" /\ allow_listing)
  <2>1. /\ ~Gone /\ allow_listing /\ request.since = "none"
        /\ site.contents[entry.name] \in Version \cup {"dir"}
        /\ pc # "status" => entry.is = Type(site.contents[entry.name])
    BY <1>1, <1>3, LedTo
  <2>2. pc = "is_file" => entry.lmodified = site.contents[entry.name]
    BY <1>3 DEF Followed, LinkInv, Inv, Quiet
  <2>3. "none" \notin Version \cup {"dir"}
    BY DEF Version
  <2> QED BY <2>1, <2>2, <2>3 DEF NotModified, Type, Version
<1>4. CASE Status
  BY <1>0, <1>1, <1>2, <1>4, LinkLook DEF Status, Goes, Looking
<1>5. CASE LastWriteTime \/ FileSize
  <2>1. \/ pc' \in {"file_size", "is_file"}
        \/ Gone /\ pc' = "done" /\ answer' = Failed(500)
    BY <1>5 DEF LastWriteTime, FileSize, Goes, Ends
  <2>2. "links" \notin DOMAIN Failed(500)
    BY DEF Failed
  <2> QED BY <1>0, <1>1, <1>2, <1>3, <2>1, <2>2, LinkLook DEF Looking
<1>6. CASE Decide
  <2>1. \/ /\ entry.is = "file" /\ NotModified(entry) /\ pc' = "done"
           /\ answer' = [status |-> 304, lmodified |-> entry.lmodified]
        \/ pc' = "open_file"
        \/ pc' = "get_files" /\ allow_listing
        \/ ~(entry.is = "file") /\ ~(entry.is = "dir" /\ allow_listing)
           /\ pc' = "done" /\ answer' = Failed(404)
    BY <1>6 DEF Decide, Goes, Ends
  <2>2. pc = "is_file"
    BY <1>6 DEF Decide
  <2>3. pc' = "done" => "links" \notin DOMAIN answer' /\ ~Followed
    BY <1>3, <2>1, <2>2 DEF Failed
  <2>4. pc' \in {"open_file", "get_files", "done"} /\ (pc' = "get_files" => allow_listing)
    BY <2>1
  <2> QED BY <1>0, <1>1, <1>2, <2>3, <2>4, LinkLook DEF Looking
<1> QED BY <1>4, <1>5, <1>6

(* A link is a text, and so is what it is resolved to.                     *)
LEMMA ShortText ==
    ASSUME NEW r \in Text, NEW e \in Text, IsEntry(r, e)
    PROVE  ShortName(r, e) \in Text
<1>1. PICK m \in Nat, n \in Nat : m = Len(r) /\ n = Len(e) /\ m <= n /\ m # n
  <2>1. Len(r) \in Nat /\ Len(e) \in Nat
    BY DEF Text
  <2>2. IsPrefix(r, e) /\ r # e
    BY DEF IsEntry, IsStrictPrefix
  <2>3. Len(r) <= Len(e) /\ \A i \in 1 .. Len(r) : e[i] = r[i]
    BY <2>2, PrefixIs
  <2>4. Len(r) # Len(e)
    BY <2>2, <2>3, SeqEqual DEF Text
  <2> QED BY <2>1, <2>3, <2>4
<1>2. PICK x : x = After(e, Len(r))
  OBVIOUS
<1>3. x \in Text /\ Len(x) = n - m
  <2>1. Len(r) \in Nat /\ Len(r) <= Len(e)
    BY <1>1
  <2> QED BY <1>1, <1>2, <2>1, AfterIs
<1>4. Front(x) \in Text
  <2>1. Len(x) \in Nat \ {0}
    BY <1>1, <1>3
  <2> QED BY <1>3, <2>1 DEF Front, Text
<1> QED BY <1>2, <1>3, <1>4 DEF ShortName

(* LastOf is a place in the text, or zero.                                 *)
LEMMA LastOfIn ==
    ASSUME NEW c, NEW p \in Text
    PROVE  LastOf(c, p) \in 0 .. Len(p)
<1>1. PICK n \in Nat : n = Len(p)
  BY DEF Text
<1>2. CASE ~\E j \in 1 .. n : p[j] = c
  BY <1>1, <1>2 DEF LastOf
<1>3. CASE \E j \in 1 .. n : p[j] = c
  <2> DEFINE S == {n - j : j \in {i \in 1 .. n : p[i] = c}}
  <2>1. S \in SUBSET Nat /\ S # {}
    BY <1>3
  <2> HIDE DEF S
  <2>2. PICK m \in S : \A k \in S : m <= k
    BY <2>1, Least
  <2>3. PICK j \in 1 .. n : p[j] = c /\ m = n - j
    BY <2>2 DEF S
  <2>4. ASSUME NEW k \in j + 1 .. n, p[k] = c PROVE FALSE
    <3>1. n - k \in S
      BY <2>3, <2>4 DEF S
    <3>2. n - j <= n - k
      BY <2>2, <2>3, <3>1
    <3> QED BY <2>3, <2>4, <3>2
  <2>5. (CHOOSE i \in 1 .. n : p[i] = c /\ \A k \in i + 1 .. n : p[k] # c) \in 1 .. n
    BY <2>3, <2>4
  <2> QED BY <1>1, <1>3, <2>5 DEF LastOf
<1> QED BY <1>2, <1>3

(* What a link is resolved to is a text.                                   *)
LEMMA FollowedText ==
    ASSUME NEW s \in Text, NEW n \in Text
    PROVE  FollowedFrom(s, Link(n)) \in Text
<1>1. PICK p \in Text : p = Path(s)
  BY PathIs
<1>2. PICK l : l = Link(n) /\ l \in Text
  <2>1. <<Dot, Slash>> \in Text
    BY DEF Text, Byte, Dot, Slash
  <2> QED BY <2>1, Glued DEF Link
<1>3. After(l, 2) \in Text
  <2>1. Len(l) = Len(n) + 2 /\ Len(n) \in Nat
    BY <1>2, ConcatProperties DEF Link, Text, Byte, Dot, Slash
  <2>2. 2 \in Nat /\ 2 <= Len(l)
    BY <2>1
  <2> QED BY <1>2, <2>2, AfterIs
<1>4. PICK k : k = LastOf(Slash, p) /\ k \in 0 .. Len(p)
  BY LastOfIn
<1>5. Before(p, k + 1) \in Text
  <2>1. Len(p) \in Nat /\ (k + 1) - 1 = k
    BY <1>4 DEF Text
  <2> QED BY <1>4, <2>1 DEF Before, Text
<1>6. Before(p, k + 1) \o Sent(After(l, 2)) \in Text
  BY <1>3, <1>5, SentIs, Glued
<1>7. Sent(l) \in Text
  BY <1>2, SentIs
<1> QED BY <1>1, <1>2, <1>4, <1>6, <1>7 DEF FollowedFrom

(* A file is opened, and sent.                                             *)
LEMMA LinkSend ==
    ASSUME LinkInv, Open \/ Send
    PROVE  LinkInv'
<1>0. Inv'
  BY OpenInv, SendInv DEF LinkInv
<1>1. /\ UNCHANGED <<site, allow_listing, request, history, followed, entry>>
      /\ pc \in {"open_file", "send_body"} /\ pc \in Looking
  BY DEF Open, Send, Ends, Looking
<1>2. \/ pc' = "send_body"
      \/ pc' = "done" /\ Gone /\ answer' = Failed(404)
      \/ pc' = "done" /\ "links" \notin DOMAIN answer' /\ answer'.status = 200
  <2>1. Open => pc' = "send_body" \/ (pc' = "done" /\ Gone /\ answer' = Failed(404))
    BY DEF Open, Ends
  <2>2. ASSUME Send
        PROVE  pc' = "send_body" \/ (pc' = "done" /\ "links" \notin DOMAIN answer' /\ answer'.status = 200)
    <3>1. PICK a, b : /\ a = answer /\ a = [status |-> 200, lmodified |-> entry.lmodified,
                                            size |-> entry.size, body |-> a.body]
                      /\ answer' = [a EXCEPT !.body = b]
      BY <2>2 DEF Send, LinkInv, Inv, Held
    <3>2. "links" \notin DOMAIN answer' /\ answer'.status = 200
      BY <3>1
    <3> QED BY <2>2, <3>2 DEF Send
  <2> QED BY <2>1, <2>2
<1>3. Followed => ~Gone
  BY <1>1, LedTo
<1>4. "links" \notin DOMAIN Failed(404)
  BY DEF Failed
<1> QED BY <1>0, <1>1, <1>2, <1>3, <1>4, LinkLook DEF Looking

(* A directory is listed: what has no special entry can be.                *)
LEMMA LinkList ==
    ASSUME LinkInv, List
    PROVE  LinkInv'
<1>0. Inv'
  BY NoFileInv DEF LinkInv
<1>1. /\ UNCHANGED <<site, allow_listing, request, history, followed, entry>>
      /\ pc = "get_files" /\ pc' = "done" /\ entry.is = "dir"
      /\ answer' = IF Listable(site, entry.name)
                   THEN [status |-> 200, links |-> {Link(n) : n \in GetFiles(site, entry.name)}]
                   ELSE Failed(500)
  BY DEF List, Ends, LinkInv, Inv, Held
<1>2. WellNamed'
  BY <1>1 DEF LinkInv, WellNamed
<1>3. Listing'
  <2>1. /\ Chosen /\ request.resource \in Text /\ allow_listing /\ ProperName(entry.name)
        /\ EndsInSlash(Path(request.resource)) => entry.name = Said(site, FilePath)
    BY <1>1 DEF LinkInv, Listing, Looking
  <2>2. Links' => /\ Listable(site, entry.name)
                  /\ answer'.links = {Link(n) : n \in GetFiles(site, entry.name)}
    <3>1. CASE Listable(site, entry.name)
      BY <1>1, <3>1
    <3>2. CASE ~Listable(site, entry.name)
      BY <1>1, <3>2 DEF Links, Failed
    <3> QED BY <3>1, <3>2
  <2> QED BY <1>1, <2>1, <2>2, Same DEF Listing, Looking
<1>4. Leading'
  <2> SUFFICES ASSUME Followed PROVE Leading'
      BY <1>1 DEF Leading, Followed, SentAsItIs
  <2>1. /\ Chosen /\ allow_listing /\ request.since = "none" /\ Exists(site, FilePath)
        /\ site.contents[NameOf(site, FilePath)] # "special"
    BY <1>1 DEF LinkInv, Leading
  <2>2. entry.name \in DOMAIN site.contents /\ Type(site.contents[entry.name]) = "dir"
    BY <1>1, LedTo DEF Gone, Looking
  <2>3. NameOf(site, entry.name) = entry.name /\ Exists(site, entry.name)
    <3>1. ProperFiles(site)
      BY DEF LinkInv, WellNamed, ProperFiles
    <3> QED BY <2>2, <3>1, NameFound
  <2>4. Listable(site, entry.name) \/ \E e \in Entries(site, entry.name) : site.contents[e] = "special"
    BY <2>2, <2>3 DEF Listable, TypeOf
  <2>5. Listable(site, entry.name) => answer'.status = 200
    BY <1>1
  <2> QED BY <1>1, <2>1, <2>4, <2>5, Same DEF Leading, LinksLead
<1> QED BY <1>0, <1>2, <1>3, <1>4 DEF LinkInv

(* Files are changed: no directory is, and no link has been followed in    *)
(* quiet since.                                                            *)
LEMMA LinkChange ==
    ASSUME LinkInv, Change
    PROVE  LinkInv'
<1>0. Inv'
  BY ChangeInv DEF LinkInv
<1>1. /\ site.kind = "os" /\ pc # "done" /\ history' = Append(history, site'.contents)
      /\ UNCHANGED <<allow_listing, request, pc, entry, answer, followed>>
  BY DEF Change
<1>2. PICK f \in DOMAIN history[1] :
         /\ site'.kind = "os"
         /\ \/ site'.contents = Restrict(site.contents, DOMAIN site.contents \ {f})
            \/ \E v \in Version : site'.contents = [x \in DOMAIN site.contents \cup {f} |->
                                                      IF x = f THEN v ELSE site.contents[x]]
  BY Changed
<1>3. PICK c, h : c = site'.contents /\ h = history' /\ h = Append(history, c)
  BY <1>1
<1>4. Len(history) \in Nat \ {0} /\ Len(h) = Len(history) + 1 /\ h[1] = history[1]
  <2>1. /\ Len(history) \in Nat \ {0} /\ Len(h) = Len(history) + 1
        /\ \A i \in 1 .. Len(history) : h[i] = history[i]
    BY <1>3, Appended DEF LinkInv, Inv
  <2> QED BY <2>1
<1>5. DOMAIN c \subseteq DOMAIN site.contents \cup DOMAIN history[1]
  BY <1>2, <1>3 DEF Restrict
<1>6. WellNamed'
  BY <1>2, <1>3, <1>4, <1>5 DEF LinkInv, WellNamed
<1>7. Listing'
  <2>1. ~Links /\ ~Links'
    BY <1>1 DEF Links
  <2>2. FilePath' = FilePath /\ (Chosen' <=> Chosen)
    BY <1>1 DEF FilePath, Chosen
  <2>3. Said(site, FilePath)' = Said(site, FilePath)
    BY <1>1, <1>2, <2>2 DEF Said
  <2> QED BY <1>1, <2>1, <2>2, <2>3 DEF LinkInv, Listing
<1>8. Leading'
  BY <1>3, <1>4 DEF Leading, Followed, SentAsItIs
<1> QED BY <1>0, <1>6, <1>7, <1>8 DEF LinkInv

(* The client follows a link of the listing it has.                        *)
LEMMA LinkFollow ==
    ASSUME ServedAsDirectory, LinkInv, Follow
    PROVE  LinkInv'
<1>0. Inv'
  BY FollowInv DEF LinkInv
<1>1. /\ Links /\ UNCHANGED <<site, allow_listing>> /\ pc' = "start"
      /\ history' = <<site.contents>>
  BY DEF Follow, Links
<1>2. PICK l \in answer.links :
         /\ request' = [resource |-> FollowedFrom(request.resource, l), since |-> "none",
                        form |-> <<>>]
         /\ followed' = [from |-> Path(request.resource), link |-> l]
  BY DEF Follow
<1>3. WellNamed'
  <2>1. history'[1] = site.contents
    BY <1>1
  <2> QED BY <1>1, <2>1 DEF LinkInv, WellNamed
<1>4. PICK s : s = request.resource
  OBVIOUS
<1>5. /\ s \in Text /\ IsUri(s) /\ Matches(DirRoute, Path(s)) /\ allow_listing
      /\ ProperName(entry.name) /\ Listable(site, entry.name)
      /\ EndsInSlash(Path(s)) =>
            entry.name = Said(site, Dir \o get_param(DirRoute, Path(s), FsPath))
      /\ answer.links = {Link(n) : n \in GetFiles(site, entry.name)}
  BY <1>1, <1>4 DEF LinkInv, Listing, Chosen, FilePath
<1>6. PICK e \in Entries(site, entry.name) : l = Link(ShortName(entry.name, e))
  BY <1>2, <1>5 DEF GetFiles
<1>7. ~Links'
  BY <1>1 DEF Links
<1>8. CASE ~(EndsInSlash(Path(s)) /\ ToSet(l) \subseteq InPath \cup {Slash})
  <2>1. IsEntry(entry.name, e) /\ entry.name \in Text /\ e \in Text
    <3>1. ProperName(e)
      BY DEF LinkInv, WellNamed, Entries
    <3> QED BY <1>5, <3>1, ProperIs DEF Entries
  <2>2. FollowedFrom(s, l) \in Text
    <3>1. ShortName(entry.name, e) \in Text
      BY <2>1, ShortText
    <3> QED BY <1>5, <1>6, <3>1, FollowedText
  <2>3. request'.resource \in Text
    BY <1>2, <1>4, <2>2
  <2>4. Listing'
    BY <1>1, <1>7, <2>3 DEF Listing, Looking
  <2>5. Leading'
    <3>1. ~Followed'
      BY <1>2, <1>4, <1>8 DEF Followed, SentAsItIs
    <3> QED BY <3>1 DEF Leading
  <2> QED BY <1>0, <1>3, <2>4, <2>5 DEF LinkInv
<1>9. CASE EndsInSlash(Path(s)) /\ ToSet(l) \subseteq InPath \cup {Slash}
  <2>1. PICK q \in Text :
              /\ q = FollowedFrom(s, l)
              /\ IsUri(q) /\ Matches(DirRoute, Path(q))
              /\ Exists(site, Dir \o get_param(DirRoute, Path(q), FsPath))
              /\ site.contents[NameOf(site, Dir \o get_param(DirRoute, Path(q), FsPath))] # "special"
    BY <1>5, <1>6, <1>9, LinkFound DEF LinkInv
  <2>2. request'.resource = q /\ request'.since = "none"
    BY <1>2, <1>4, <2>1
  <2>3. Chosen'
    BY <2>1, <2>2 DEF Chosen
  <2>4. Listing'
    BY <1>1, <1>7, <2>1, <2>2 DEF Listing, Looking
  <2>5. Exists(site, FilePath)' /\ (site.contents[NameOf(site, FilePath)] # "special")'
    BY <1>1, <2>1, <2>2 DEF FilePath
  <2>6. Leading'
    BY <1>1, <1>5, <2>2, <2>3, <2>5 DEF Leading, LinksLead
  <2> QED BY <1>0, <1>3, <2>4, <2>6 DEF LinkInv
<1> QED BY <1>8, <1>9


(* Every step keeps the invariant.                                         *)
LEMMA LinkNext ==
    ASSUME ServedAsDirectory, LinkInv, [Next]_vars
    PROVE  LinkInv'
<1>1. CASE InvalidUri \/ RouteLiteral \/ NoRoute \/ CheckExists
  BY <1>1, LinkRoute
<1>2. CASE Canonical
  BY <1>2, LinkCanonical
<1>3. CASE Status \/ LastWriteTime \/ FileSize \/ Decide
  BY <1>3, LinkLooks
<1>8. CASE Open \/ Send
  BY <1>8, LinkSend
<1>4. CASE List
  BY <1>4, LinkList
<1>5. CASE Change
  BY <1>5, LinkChange
<1>6. CASE Follow
  BY <1>6, LinkFollow
<1>7. CASE UNCHANGED vars
  <2>1. Inv'
    BY <1>7, NextInv DEF LinkInv
  <2>2. UNCHANGED <<site, allow_listing, request, pc, entry, answer, history, followed>>
    BY <1>7 DEF vars
  <2>3. WellNamed'
    BY <2>2 DEF LinkInv, WellNamed
  <2>4. Listing'
    BY <2>2, Same DEF LinkInv, Listing, Links
  <2>5. Leading'
    BY <2>2, Same DEF LinkInv, Leading, Followed, SentAsItIs, LinksLead
  <2> QED BY <2>1, <2>3, <2>4, <2>5 DEF LinkInv
<1> QED BY <1>1, <1>2, <1>3, <1>4, <1>5, <1>6, <1>7, <1>8 DEF Next

(* Every link of a listing that has none but characters a client sends as  *)
(* they are leads to what it names, as long as that is there: get_files    *)
(* takes the directory's name off the names of its entries, the client     *)
(* puts the rest behind the path of the listing, and the path that the     *)
(* router then finds is read as the entry's name again, by the operating   *)
(* system and, after zip_fix_path, in an archive.                          *)
THEOREM ListingLeads == ASSUME ServedAsDirectory PROVE Spec => []LinksLead
<1>1. Init => LinkInv
  BY LinkInit
<1>2. LinkInv /\ [Next]_vars => LinkInv'
  BY LinkNext
<1>3. LinkInv => LinksLead
  <2>1. Followed /\ LinkInv => LinksLead
    BY DEF LinkInv, Leading
  <2>2. ~Followed => LinksLead
    BY DEF Followed, SentAsItIs, EndsInSlash, LinksLead, Last
  <2> QED BY <2>1, <2>2
<1> QED BY <1>1, <1>2, <1>3, PTL DEF Spec

-----------------------------------------------------------------------------
(* Quoted text is matched by itself, and by nothing else.                  *)

(* What a turn of the loop makes of a character, and what all of them do.  *)
QuotedBy(x, c) == IF x = c THEN <<Backslash, c>> ELSE <<x>>
QuotedOne(x) == IF x \in ToSet(Escaped) THEN <<Backslash, x>> ELSE <<x>>

(* Nothing has nothing to be quoted in it.                                 *)
LEMMA ReplacedNone ==
    ASSUME NEW c
    PROVE  Replaced(<<>>, c) = <<>>
<1>1. PICK ss : ss = Unquoted(<<>>, c)
  OBVIOUS
<1>2. ss = <<>>
  BY <1>1 DEF Unquoted
<1>3. Replaced(<<>>, c) = FlattenSeq(ss)
  BY <1>1 DEF Replaced, Unquoted
<1> QED BY <1>2, <1>3, FlattenNone

(* A character more is replaced by itself, or by two.                      *)
LEMMA ReplacedAppend ==
    ASSUME NEW s \in Text, NEW x \in Byte, NEW c \in Byte
    PROVE  Replaced(Append(s, x), c) = Replaced(s, c) \o QuotedBy(x, c)
<1>1. PICK k \in Nat : k = Len(s) /\ \A i \in 1 .. k : s[i] \in Byte
  BY DEF Text
<1>2. Backslash \in Byte
  BY DEF Backslash, Byte
<1>3. ASSUME NEW y \in Byte PROVE QuotedBy(y, c) \in Text
  <2>1. <<Backslash, c>> \in Text /\ <<y>> \in Text
    BY <1>2 DEF Text
  <2> QED BY <2>1 DEF QuotedBy
<1>4. PICK ss \in Seq(Text) : ss = [i \in 1 .. k |-> QuotedBy(s[i], c)]
  <2>1. PICK ss : ss = [i \in 1 .. k |-> QuotedBy(s[i], c)]
    OBVIOUS
  <2>2. ss \in [1 .. k -> Text]
    BY <1>1, <1>3, <2>1
  <2> QED BY <2>1, <2>2, SeqDef
<1>5. PICK t \in Text : t = QuotedBy(x, c)
  BY <1>3
<1>6. PICK ms : ms = Append(s, x)
  OBVIOUS
<1>7. Len(ms) = k + 1 /\ ms[k + 1] = x /\ \A i \in 1 .. k : ms[i] = s[i]
  BY <1>1, <1>6, AppendProperties DEF Text
<1>8. PICK b \in Seq(Text) : b = Append(ss, t)
  BY <1>4, <1>5, AppendProperties
<1>9. b = [i \in 1 .. k + 1 |-> QuotedBy(ms[i], c)]
  <2>1. PICK a : a = [i \in 1 .. k + 1 |-> QuotedBy(ms[i], c)]
    OBVIOUS
  <2>2. Len(ss) = k
    BY <1>4
  <2>3. Len(b) = k + 1 /\ b[k + 1] = t /\ \A i \in 1 .. k : b[i] = ss[i]
    BY <1>8, <2>2
  <2>4. ASSUME NEW i \in 1 .. k + 1 PROVE a[i] = b[i]
    <3>1. CASE i = k + 1
      BY <1>5, <1>7, <2>1, <2>3, <3>1
    <3>2. CASE i # k + 1
      <4>1. i \in 1 .. k
        BY <3>2
      <4>2. a[i] = QuotedBy(s[i], c) /\ b[i] = ss[i]
        BY <1>7, <2>1, <2>3, <4>1
      <4> QED BY <1>4, <4>1, <4>2
    <3> QED BY <3>1, <3>2
  <2>5. a = b
    BY <2>1, <2>3, <2>4
  <2> QED BY <2>1, <2>5
<1>10. Replaced(s, c) = FlattenSeq(ss) /\ Replaced(ms, c) = FlattenSeq(b)
  <2>1. Replaced(s, c) = FlattenSeq([i \in 1 .. k |-> QuotedBy(s[i], c)])
    BY <1>1 DEF Replaced, QuotedBy
  <2>2. Replaced(ms, c) = FlattenSeq([i \in 1 .. k + 1 |-> QuotedBy(ms[i], c)])
    BY <1>7 DEF Replaced, QuotedBy
  <2> QED BY <1>4, <1>9, <2>1, <2>2
<1>11. FlattenSeq(b) = FlattenSeq(ss) \o t
  BY <1>8, FlattenAppend DEF Text
<1> QED BY <1>5, <1>6, <1>10, <1>11

(* Every character in Order is in it once, and the backslash is the first. *)
LEMMA OrderOnce ==
    /\ Order[1] = Backslash
    /\ \A i, j \in 1 .. 14 : Order[i] = Order[j] => i = j
    /\ \A x : x \in ToSet(Escaped) <=> \E i \in 1 .. 14 : Order[i] = x
<1>1. Order = <<92, 46, 42, 43, 63, 94, 36, 123, 125, 40, 41, 124, 91, 93>>
  BY DEF Order, Escaped, Backslash
<1>2. \A i \in 1 .. 14 : i \in {1, 2, 3, 4, 5, 6, 7, 8, 9, 10, 11, 12, 13, 14}
  OBVIOUS
<1>3. \A i, j \in 1 .. 14 : Order[i] = Order[j] => i = j
  BY <1>1, <1>2
<1>4. \A x : x \in ToSet(Escaped) <=> \E i \in 1 .. 14 : Order[i] = x
  <2>1. DOMAIN Escaped = 1 .. 14
    BY DEF Escaped
  <2> QED BY <2>1 DEF ToSet, Order
<1> QED BY <1>1, <1>3, <1>4 DEF Backslash

(* Nothing quoted is nothing.                                              *)
LEMMA QuotedNone == Quoted(<<>>) = <<>>
<1>1. <<>> \in Text
  BY DEF Text
<1>2. PICK f : Quotes(f, <<>>) /\ Quoted(<<>>) = f[14]
  BY <1>1, QuoteLoop
<1> DEFINE S == {i \in Nat : i <= 14 => f[i] = <<>>}
<1>3. 0 \in S
  BY <1>2 DEF Quotes
<1>4. ASSUME NEW i \in S PROVE i + 1 \in S
  <2>1. i \in Nat /\ i + 1 \in Nat
    OBVIOUS
  <2>2. ASSUME i + 1 <= 14 PROVE f[i + 1] = <<>>
    <3>1. i + 1 \in 1 .. 14 /\ (i + 1) - 1 = i /\ f[i] = <<>>
      BY <2>1, <2>2
    <3>2. f[i + 1] = Replaced(f[(i + 1) - 1], Order[i + 1])
      BY <1>2, <3>1 DEF Quotes
    <3>3. f[i + 1] = Replaced(<<>>, Order[i + 1])
      BY <3>1, <3>2
    <3> QED BY <3>3, ReplacedNone
  <2> QED BY <2>1, <2>2
<1>5. S = Nat
  <2>1. S \in SUBSET Nat
    OBVIOUS
  <2> HIDE DEF S
  <2> QED BY <1>3, <1>4, <2>1, SetInduction
<1>6. 14 \in S
  <2> HIDE DEF S
  <2> QED BY <1>5
<1> QED BY <1>2, <1>6

(* Two characters more.                                                    *)
LEMMA TwoBehind ==
    ASSUME NEW s \in Text, NEW x \in Byte, NEW y \in Byte
    PROVE  Append(Append(s, x), y) = s \o <<x, y>>
<1>1. PICK b \in Text : b = Append(s, x)
  BY AppendProperties DEF Text
<1>2. PICK d \in Text : d = Append(b, y)
  BY AppendProperties DEF Text
<1>3. PICK t \in Text : t = <<x, y>> /\ Len(t) = 2 /\ t[1] = x /\ t[2] = y
  <2>1. <<x, y>> \in Text
    BY DEF Text
  <2> QED BY <2>1
<1>4. PICK n \in Nat : n = Len(s)
  BY DEF Text
<1>5. Len(b) = n + 1 /\ b[n + 1] = x /\ \A i \in 1 .. n : b[i] = s[i]
  BY <1>1, <1>4, AppendProperties DEF Text
<1>6. Len(d) = n + 2 /\ d[n + 2] = y /\ \A i \in 1 .. n + 1 : d[i] = b[i]
  BY <1>2, <1>4, <1>5, AppendProperties DEF Text
<1>7. PICK e \in Text : e = s \o t
  BY <1>3, Glued
<1>8. Len(e) = n + 2 /\ \A i \in 1 .. n + 2 : e[i] = IF i <= n THEN s[i] ELSE t[i - n]
  BY <1>3, <1>4, <1>7, Glued
<1>9. ASSUME NEW i \in 1 .. n + 2 PROVE e[i] = d[i]
  <2>1. CASE i \in 1 .. n
    BY <1>5, <1>6, <1>8, <2>1
  <2>2. CASE i = n + 1
    BY <1>3, <1>5, <1>6, <1>8, <2>2
  <2>3. CASE i = n + 2
    BY <1>3, <1>6, <1>8, <2>3
  <2> QED BY <1>4, <2>1, <2>2, <2>3
<1>10. e = d
  BY <1>6, <1>8, <1>9, SeqEqual DEF Text
<1> QED BY <1>1, <1>2, <1>3, <1>7, <1>10

(* A character more is quoted once, by the turn of its own.                *)
LEMMA QuotedAppend ==
    ASSUME NEW s \in Text, NEW x \in Byte
    PROVE  Quoted(Append(s, x)) = Quoted(s) \o QuotedOne(x)
<1>1. PICK u \in Text : u = Append(s, x)
  BY AppendProperties DEF Text
<1>2. PICK f : Quotes(f, s) /\ Quoted(s) = f[14]
  BY QuoteLoop
<1>3. PICK h : Quotes(h, u) /\ Quoted(u) = h[14]
  BY QuoteLoop
<1>4. f \in [0 .. 14 -> Text] /\ f[0] = s /\ \A i \in 1 .. 14 : f[i] = Replaced(f[i - 1], Order[i])
  BY <1>2 DEF Quotes
<1>5. h[0] = u /\ \A i \in 1 .. 14 : h[i] = Replaced(h[i - 1], Order[i])
  BY <1>3 DEF Quotes
<1>6. Backslash \in Byte
  BY DEF Backslash, Byte
<1> DEFINE Q(i) == IF \E j \in 1 .. i : Order[j] = x THEN <<Backslash, x>> ELSE <<x>>
           S == {i \in Nat : i <= 14 => h[i] = f[i] \o Q(i)}
<1>7. 0 \in S
  <2>1. Q(0) = <<x>>
    OBVIOUS
  <2>2. u = s \o <<x>>
    BY <1>1, AppendIsConcat DEF Text
  <2> QED BY <1>4, <1>5, <2>1, <2>2
<1>8. ASSUME NEW i \in S PROVE i + 1 \in S
  <2>1. i \in Nat /\ i + 1 \in Nat
    OBVIOUS
  <2> SUFFICES ASSUME i + 1 <= 14 PROVE h[i + 1] = f[i + 1] \o Q(i + 1)
      BY <2>1
  <2>2. i + 1 \in 1 .. 14 /\ (i + 1) - 1 = i /\ i \in 0 .. 14 /\ h[i] = f[i] \o Q(i)
    <3>1. i <= 14 => h[i] = f[i] \o Q(i)
      OBVIOUS
    <3> HIDE DEF Q
    <3> QED BY <2>1, <3>1
  <2>3. PICK a \in Text, c \in Byte : a = f[i] /\ c = Order[i + 1]
    BY <1>4, <2>2, OrderIs
  <2>4. f[i + 1] = Replaced(a, c) /\ h[i + 1] = Replaced(h[i], c)
    BY <1>4, <1>5, <2>2, <2>3
  <2>5. CASE \E j \in 1 .. i : Order[j] = x
    <3>1. PICK j \in 1 .. i : Order[j] = x
      BY <2>5
    <3>2. c # x /\ c # Backslash
      <4>1. j \in 1 .. 14 /\ 1 \in 1 .. 14 /\ j # i + 1 /\ 1 # i + 1
        BY <2>2, <3>1
      <4> QED BY <2>2, <2>3, <3>1, <4>1, OrderOnce
    <3>3. Q(i) = <<Backslash, x>> /\ Q(i + 1) = <<Backslash, x>>
      <4>1. j \in 1 .. i + 1
        BY <2>1, <3>1
      <4> QED BY <3>1, <4>1
    <3>4. PICK b \in Text : b = Append(a, Backslash)
      BY <1>6, AppendProperties DEF Text
    <3>5. h[i] = Append(b, x)
      <4>1. h[i] = a \o <<Backslash, x>>
        BY <2>2, <2>3, <3>3
      <4> QED BY <1>6, <3>4, <4>1, TwoBehind
    <3>6. Replaced(Append(b, x), c) = Replaced(b, c) \o <<x>>
      BY <3>2, ReplacedAppend DEF QuotedBy
    <3>7. Replaced(b, c) = Replaced(a, c) \o <<Backslash>>
      BY <1>6, <3>2, <3>4, ReplacedAppend DEF QuotedBy
    <3>8. PICK d \in Text : d = Replaced(a, c)
      BY ReplacedIs
    <3>9. (d \o <<Backslash>>) \o <<x>> = d \o <<Backslash, x>>
      <4>1. (d \o <<Backslash>>) \o <<x>> = Append(Append(d, Backslash), x)
        BY <1>6, AppendIsConcat, AppendProperties DEF Text
      <4> QED BY <1>6, <4>1, TwoBehind
    <3> QED BY <2>4, <3>3, <3>5, <3>6, <3>7, <3>8, <3>9
  <2>6. CASE ~\E j \in 1 .. i : Order[j] = x
    <3>1. Q(i) = <<x>>
      BY <2>6
    <3>2. h[i] = Append(a, x)
      BY <2>2, <2>3, <3>1, AppendIsConcat DEF Text
    <3>3. h[i + 1] = f[i + 1] \o QuotedBy(x, c)
      BY <2>4, <3>2, ReplacedAppend
    <3>4. (\E j \in 1 .. i + 1 : Order[j] = x) <=> x = c
      <4>1. \A j \in 1 .. i + 1 : j = i + 1 \/ j \in 1 .. i
        BY <2>1
      <4>2. i + 1 \in 1 .. i + 1
        BY <2>1
      <4> QED BY <2>3, <2>6, <4>1, <4>2
    <3>5. QuotedBy(x, c) = Q(i + 1)
      BY <3>4 DEF QuotedBy
    <3> HIDE DEF Q
    <3> QED BY <3>3, <3>5
  <2> QED BY <2>5, <2>6
<1>9. S = Nat
  <2>1. S \in SUBSET Nat
    OBVIOUS
  <2> HIDE DEF S
  <2> QED BY <1>7, <1>8, <2>1, SetInduction
<1>10. 14 \in S
  <2> HIDE DEF S
  <2> QED BY <1>9
<1>11. Q(14) = QuotedOne(x)
  BY OrderOnce DEF QuotedOne
<1> HIDE DEF Q
<1> QED BY <1>1, <1>2, <1>3, <1>10, <1>11

(* What a regular expression comes to, and with a character more.          *)
ScanEnd(r, t, e) == \E g : Scans(g, r, t, Len(r)) /\ e = g[Len(r)]

(* The state of the scan at its end.                                       *)
LEMMA ScanEnds ==
    ASSUME NEW r \in Text, NEW t
    PROVE  \E e \in ScanState :
              /\ ScanEnd(r, t, e)
              /\ Reads(r, t) <=> e = [quoted |-> FALSE, chars |-> Len(t), fits |-> TRUE]
<1>1. PICK n \in Nat : n = Len(r)
  BY DEF Text
<1>2. PICK g : /\ Scans(g, r, t, n)
               /\ Reads(r, t) <=> g[n] = [quoted |-> FALSE, chars |-> Len(t), fits |-> TRUE]
  BY <1>1, ScanLoop
<1>3. g[n] \in ScanState
  BY <1>2 DEF Scans
<1> QED BY <1>1, <1>2, <1>3 DEF ScanEnd

(* A scan of a longer expression goes through the states of a shorter one. *)
LEMMA ScanMore ==
    ASSUME NEW r \in Text, NEW x \in Byte, NEW t, NEW a, ScanEnd(r, t, a),
           NEW b, ScanEnd(Append(r, x), t, b)
    PROVE  b = Scan(a, x, t)
<1>1. PICK n \in Nat : n = Len(r)
  BY DEF Text
<1>2. PICK u : u = Append(r, x)
  OBVIOUS
<1>3. Len(u) = n + 1 /\ u[n + 1] = x /\ \A i \in 1 .. n : u[i] = r[i]
  BY <1>1, <1>2, AppendProperties DEF Text
<1>4. PICK g : Scans(g, r, t, n) /\ a = g[n]
  BY <1>1 DEF ScanEnd
<1>5. PICK h : Scans(h, u, t, n + 1) /\ b = h[n + 1]
  BY <1>2, <1>3 DEF ScanEnd
<1>6. PICK f : f = [i \in 0 .. n |-> h[i]]
  OBVIOUS
<1>7. /\ g = [i \in 0 .. n |-> g[i]] /\ g[0] = Unscanned
      /\ \A i \in 1 .. n : g[i] = Scan(g[i - 1], r[i], t)
  BY <1>4 DEF Scans
<1>8. h[0] = Unscanned /\ \A i \in 1 .. n + 1 : h[i] = Scan(h[i - 1], u[i], t)
  BY <1>5 DEF Scans
<1>9. f = [i \in 0 .. n |-> f[i]] /\ f[0] = Unscanned /\ f[n] = h[n]
  BY <1>6, <1>8
<1>10. ASSUME NEW i \in 1 .. n, g[i - 1] = f[i - 1] PROVE g[i] = f[i]
  <2>1. i \in 1 .. n + 1 /\ f[i] = h[i] /\ f[i - 1] = h[i - 1]
    BY <1>6
  <2>2. h[i] = Scan(h[i - 1], r[i], t)
    BY <1>3, <1>8, <2>1
  <2> QED BY <1>7, <1>10, <2>1, <2>2
<1>11. g = f
  <2>1. Agrees(g, f, n)
    BY <1>7, <1>9, <1>10 DEF Agrees
  <2> QED BY <2>1, Agreement
<1>12. h[n + 1] = Scan(h[n], u[n + 1], t)
  <2>1. n + 1 \in 1 .. n + 1 /\ (n + 1) - 1 = n
    OBVIOUS
  <2>2. h[n + 1] = Scan(h[(n + 1) - 1], u[n + 1], t)
    BY <1>8, <2>1
  <2> QED BY <2>1, <2>2
<1> QED BY <1>3, <1>4, <1>5, <1>9, <1>11, <1>12

(* Quoted text and one character of it behind another.                     *)
LEMMA ScanQuotedOne ==
    ASSUME NEW a \in ScanState, ~a.quoted, NEW t \in Text, NEW x \in Byte
    PROVE  LET next == [quoted |-> FALSE, chars |-> a.chars + 1,
                        fits |-> a.fits /\ a.chars + 1 <= Len(t) /\ x = t[a.chars + 1]]
           IN  IF x \in ToSet(Escaped) THEN Scan(Scan(a, Backslash, t), x, t) = next
               ELSE Scan(a, x, t) = next
<1>1. PICK i \in Nat : i = a.chars + 1
  BY DEF ScanState
<1>2. Backslash \in ToSet(Escaped) /\ Dot \in ToSet(Escaped)
  <2>1. DOMAIN Escaped = 1 .. 14 /\ Escaped[1] = Backslash /\ Escaped[2] = Dot
    BY DEF Escaped, Dot
  <2> QED BY <2>1 DEF ToSet
<1>3. CASE x \in ToSet(Escaped)
  <2>1. PICK b \in ScanState : b = Scan(a, Backslash, t)
    BY ScanIs
  <2>2. b.quoted /\ b.chars = a.chars /\ b.fits = a.fits
    BY <2>1 DEF Scan, ScanState
  <2>3. Scan(b, x, t) = [quoted |-> FALSE, chars |-> i,
                         fits |-> a.fits /\ i <= Len(t) /\ x = t[i]]
    <3>1. PICK y : y = t[i]
      OBVIOUS
    <3>2. ~(x = Backslash /\ ~b.quoted) /\ ~(x = Dot /\ ~b.quoted)
      BY <2>2
    <3>3. b.chars + 1 = i
      BY <1>1, <2>2
    <3>4. (b.fits /\ i <= Len(t) /\ (x = t[i] /\ (b.quoted \/ x \notin ToSet(Escaped))))
          = (a.fits /\ i <= Len(t) /\ x = t[i])
      BY <2>2
    <3> QED BY <3>2, <3>3, <3>4 DEF Scan
  <2> QED BY <1>1, <1>3, <2>1, <2>3
<1>4. CASE x \notin ToSet(Escaped)
  <2>1. x # Backslash /\ x # Dot
    BY <1>2, <1>4
  <2>2. Scan(a, x, t) = [quoted |-> FALSE, chars |-> i,
                         fits |-> a.fits /\ i <= Len(t) /\ x = t[i]]
    <3>1. (a.fits /\ i <= Len(t) /\ (x = t[i] /\ (a.quoted \/ x \notin ToSet(Escaped))))
          = (a.fits /\ i <= Len(t) /\ x = t[i])
      BY <1>4
    <3> QED BY <1>1, <2>1, <3>1 DEF Scan
  <2> QED BY <1>1, <1>4, <2>2
<1> QED BY <1>3, <1>4

(* Where the scan of quoted text is: at the end of what it was made of.    *)
LEMMA ScanQuoted ==
    ASSUME NEW t \in Text, NEW s \in Text
    PROVE  \E e \in ScanState :
              /\ ScanEnd(Quoted(s), t, e)
              /\ ~e.quoted /\ e.chars = Len(s) /\ (e.fits <=> StartsWith(s, t))
<1> DEFINE Good(z) == \E e \in ScanState :
              /\ ScanEnd(Quoted(z), t, e)
              /\ ~e.quoted /\ e.chars = Len(z) /\ (e.fits <=> StartsWith(z, t))
           S == {z \in Seq(Byte) : Good(z)}
<1>1. <<>> \in S
  <2>1. PICK z \in Text : z = <<>> /\ Len(z) = 0
    BY EmptySeq DEF Text
  <2>2. PICK e \in ScanState : ScanEnd(z, t, e)
    BY ScanEnds
  <2>3. PICK g : Scans(g, z, t, 0) /\ e = g[0]
    BY <2>1, <2>2 DEF ScanEnd
  <2>4. ~e.quoted /\ e.chars = 0 /\ e.fits
    BY <2>3 DEF Scans, Unscanned
  <2>5. StartsWith(z, t)
    BY <2>1 DEF StartsWith, Text
  <2>6. Quoted(z) = z
    BY <2>1, QuotedNone
  <2>7. Good(z)
    BY <2>1, <2>2, <2>4, <2>5, <2>6
  <2> HIDE DEF Good
  <2> QED BY <2>1, <2>7 DEF Text
<1>2. ASSUME NEW z \in S, NEW x \in Byte PROVE Append(z, x) \in S
  <2>1. z \in Text /\ Good(z)
    BY DEF Text
  <2>2. PICK n \in Nat : n = Len(z)
    BY <2>1 DEF Text
  <2>3. PICK u \in Text : u = Append(z, x)
    BY <2>1, AppendProperties DEF Text
  <2>4. Len(u) = n + 1 /\ u[n + 1] = x /\ \A i \in 1 .. n : u[i] = z[i]
    BY <2>1, <2>2, <2>3, AppendProperties DEF Text
  <2>5. PICK a \in ScanState : /\ ScanEnd(Quoted(z), t, a)
                               /\ ~a.quoted /\ a.chars = n /\ (a.fits <=> StartsWith(z, t))
    BY <2>1, <2>2
  <2>6. PICK q \in Text : q = Quoted(z)
    BY <2>1, QuotedIs
  <2>7. Backslash \in Byte
    BY DEF Backslash, Byte
  <2>8. PICK e \in ScanState : ScanEnd(Quoted(u), t, e)
    BY <2>3, QuotedIs, ScanEnds
  <2>9. Quoted(u) = q \o QuotedOne(x)
    BY <2>1, <2>3, <2>6, QuotedAppend
  <2>10. e = [quoted |-> FALSE, chars |-> n + 1,
              fits |-> a.fits /\ n + 1 <= Len(t) /\ x = t[n + 1]]
    <3>1. CASE x \in ToSet(Escaped)
      <4>1. PICK v \in Text : v = Append(q, Backslash)
        BY <2>7, AppendProperties DEF Text
      <4>2. Quoted(u) = Append(v, x)
        BY <2>7, <2>9, <3>1, <4>1, TwoBehind DEF QuotedOne
      <4>3. PICK b \in ScanState : ScanEnd(v, t, b)
        BY ScanEnds
      <4>4. b = Scan(a, Backslash, t)
        BY <2>5, <2>6, <2>7, <4>1, <4>3, ScanMore
      <4>5. e = Scan(b, x, t)
        BY <2>8, <4>2, <4>3, ScanMore
      <4> QED BY <2>5, <3>1, <4>4, <4>5, ScanQuotedOne
    <3>2. CASE x \notin ToSet(Escaped)
      <4>1. Quoted(u) = Append(q, x)
        BY <2>9, <3>2, AppendIsConcat DEF QuotedOne, Text
      <4>2. e = Scan(a, x, t)
        BY <2>5, <2>6, <2>8, <4>1, ScanMore
      <4> QED BY <2>5, <3>2, <4>2, ScanQuotedOne
    <3> QED BY <3>1, <3>2
  <2>11. e.fits <=> StartsWith(u, t)
    <3>1. e.fits <=> StartsWith(z, t) /\ n + 1 <= Len(t) /\ x = t[n + 1]
      BY <2>5, <2>10
    <3>2. \A i \in 1 .. n + 1 : i = n + 1 \/ i \in 1 .. n
      OBVIOUS
    <3>3. StartsWith(u, t) <=> StartsWith(z, t) /\ n + 1 <= Len(t) /\ x = t[n + 1]
      <4>1. PICK m \in Nat : m = Len(t)
        BY DEF Text
      <4>2. ASSUME StartsWith(u, t) PROVE StartsWith(z, t) /\ n + 1 <= m /\ x = t[n + 1]
        <5>1. n + 1 <= m /\ \A i \in 1 .. n + 1 : t[i] = u[i]
          BY <2>4, <4>1, <4>2 DEF StartsWith
        <5> QED BY <2>2, <2>4, <4>1, <5>1 DEF StartsWith
      <4>3. ASSUME StartsWith(z, t), n + 1 <= m, x = t[n + 1] PROVE StartsWith(u, t)
        <5>1. \A i \in 1 .. n : t[i] = z[i]
          BY <2>2, <4>3 DEF StartsWith
        <5>2. \A i \in 1 .. n + 1 : t[i] = u[i]
          BY <2>4, <3>2, <4>3, <5>1
        <5> QED BY <2>4, <4>1, <4>3, <5>2 DEF StartsWith
      <4> QED BY <4>1, <4>2, <4>3
    <3> QED BY <3>1, <3>3
  <2>12. Good(u)
    BY <2>4, <2>8, <2>10, <2>11
  <2> HIDE DEF Good
  <2> QED BY <2>3, <2>12 DEF Text
<1>3. S = Seq(Byte)
  <2>1. S \in SUBSET Seq(Byte)
    OBVIOUS
  <2> HIDE DEF S
  <2> QED BY <1>1, <1>2, <2>1, SequenceInduction
<1>4. s \in S
  <2> HIDE DEF S
  <2> QED BY <1>3 DEF Text
<1> QED BY <1>4

(* A text with one character more is read by its expression and that of    *)
(* the character.                                                          *)
LEMMA ScanOne ==
    ASSUME NEW r \in Text, NEW t, NEW a, ScanEnd(r, t, a), NEW b, ScanEnd(r, t, b)
    PROVE  a = b
<1>1. PICK n \in Nat : n = Len(r)
  BY DEF Text
<1>2. PICK g : Scans(g, r, t, n) /\ a = g[n]
  BY <1>1 DEF ScanEnd
<1>3. PICK h : Scans(h, r, t, n) /\ b = h[n]
  BY <1>1 DEF ScanEnd
<1>4. Agrees(g, h, n)
  BY <1>2, <1>3 DEF Scans, Agrees
<1>5. g = h
  BY <1>4, Agreement
<1> QED BY <1>2, <1>3, <1>5

(* A quoted text, as a regular expression, reads itself and nothing else.  *)
LEMMA QuotedReads ==
    ASSUME NEW s \in Text, NEW t \in Text
    PROVE  Reads(Quoted(s), t) <=> s = t
<1>1. PICK q \in Text : q = Quoted(s)
  BY QuotedIs
<1>2. PICK e \in ScanState : /\ ScanEnd(q, t, e) /\ ~e.quoted /\ e.chars = Len(s)
                             /\ (e.fits <=> StartsWith(s, t))
  BY <1>1, ScanQuoted
<1>3. PICK d \in ScanState : /\ ScanEnd(q, t, d)
                             /\ Reads(q, t) <=> d = [quoted |-> FALSE, chars |-> Len(t), fits |-> TRUE]
  BY ScanEnds
<1>4. d = e
  BY <1>2, <1>3, ScanOne
<1>5. Reads(q, t) <=> e.chars = Len(t) /\ e.fits
  BY <1>2, <1>3, <1>4 DEF ScanState
<1>6. Len(s) = Len(t) /\ StartsWith(s, t) <=> s = t
  <2>1. ASSUME Len(s) = Len(t), StartsWith(s, t) PROVE s = t
    BY <2>1, SeqEqual DEF StartsWith, Text
  <2> QED BY <2>1 DEF StartsWith, Text
<1> QED BY <1>1, <1>2, <1>5, <1>6

(* A route without parameters takes the path with its parts.               *)
Course(ps) == <<Slash>> \o Joined(ps)

(* Without parts the course is the root's.                                 *)
LEMMA CourseNone == Course(<<>>) = <<Slash>>
<1>1. <<Slash>> \in Seq(Byte)
  BY DEF Slash, Byte
<1> QED BY <1>1, JoinedNone, ConcatEmptySeq DEF Course

(* A course is a text that ends in a slash.                                *)
LEMMA CourseIs ==
    ASSUME NEW ps \in Seq(Text)
    PROVE  Course(ps) \in Text /\ EndsInSlash(Course(ps))
<1>1. PICK t \in Text : t = <<Slash>> /\ Len(t) = 1 /\ t[1] = Slash
  <2>1. <<Slash>> \in Text
    BY DEF Slash, Byte, Text
  <2> QED BY <2>1
<1>2. PICK j \in Text : j = Joined(ps) /\ (j = <<>> \/ EndsInSlash(j))
  BY JoinedEnds
<1>3. PICK u \in Text : u = t \o j /\ u = Course(ps)
  BY <1>1, <1>2, Glued DEF Course
<1>4. PICK m \in Nat : m = Len(j)
  BY DEF Text
<1>5. Len(u) = 1 + m /\ \A i \in 1 .. 1 + m : u[i] = IF i <= 1 THEN t[i] ELSE j[i - 1]
  BY <1>1, <1>3, <1>4, Glued
<1>6. u # <<>>
  <2>1. 1 + m # 0 /\ Len(<<>>) = 0
    OBVIOUS
  <2> QED BY <1>5, <2>1
<1>7. u[1 + m] = Slash
  <2>1. CASE m = 0
    <3>1. 1 \in 1 .. 1 + m
      OBVIOUS
    <3> QED BY <1>1, <1>5, <2>1, <3>1
  <2>2. CASE m # 0
    <3>1. j # <<>>
      BY <1>4, <2>2
    <3>2. j[m] = Slash
      BY <1>2, <1>4, <3>1 DEF EndsInSlash
    <3>3. 1 + m \in 1 .. 1 + m /\ ~(1 + m <= 1) /\ (1 + m) - 1 = m
      BY <2>2
    <3>4. u[1 + m] = j[(1 + m) - 1]
      BY <1>5, <3>3
    <3> QED BY <3>2, <3>3, <3>4
  <2> QED BY <2>1, <2>2
<1> QED BY <1>3, <1>5, <1>6, <1>7 DEF EndsInSlash

(* With a part more it goes on with that part and a slash.                 *)
GoesOn(u, v, p) ==
    /\ Len(v) = Len(u) + Len(p) + 1 /\ v[Len(u) + Len(p) + 1] = Slash
    /\ \A i \in 1 .. Len(u) : v[i] = u[i]
    /\ \A i \in 1 .. Len(p) : v[Len(u) + i] = p[i]

(* A part more, with its slash.                                            *)
LEMMA CourseMore ==
    ASSUME NEW ps \in Seq(Text), NEW p \in Text
    PROVE  GoesOn(Course(ps), Course(Append(ps, p)), p)
<1>1. PICK t \in Text : t = <<Slash>>
  <2>1. <<Slash>> \in Text
    BY DEF Slash, Byte, Text
  <2> QED BY <2>1
<1>2. PICK j \in Text : j = Joined(ps)
  BY JoinedAppend
<1>3. Slash \in Byte
  BY DEF Slash, Byte
<1>4. PICK e \in Text : e = Append(p, Slash)
  BY <1>3, AppendProperties DEF Text
<1>5. PICK m \in Nat : m = Len(p)
  BY DEF Text
<1>6. Len(e) = m + 1 /\ e[m + 1] = Slash /\ \A i \in 1 .. m : e[i] = p[i]
  BY <1>3, <1>4, <1>5, AppendProperties DEF Text
<1>7. PICK u \in Text : u = t \o j /\ u = Course(ps)
  BY <1>1, <1>2, Glued DEF Course
<1>8. PICK l \in Nat : l = Len(u)
  BY DEF Text
<1>9. PICK v \in Text : v = u \o e
  BY Glued
<1>10. v = Course(Append(ps, p))
  <2>1. Joined(Append(ps, p)) = j \o e
    BY <1>2, <1>4, JoinedAppend
  <2>2. (t \o j) \o e = t \o (j \o e)
    BY GluedInTurn
  <2> QED BY <1>1, <1>7, <1>9, <2>1, <2>2 DEF Course
<1>11. /\ Len(v) = l + (m + 1)
       /\ \A i \in 1 .. l + (m + 1) : v[i] = IF i <= l THEN u[i] ELSE e[i - l]
  <2>1. /\ Len(u \o e) = Len(u) + Len(e)
        /\ \A i \in 1 .. Len(u) + Len(e) : (u \o e)[i] = IF i <= Len(u) THEN u[i] ELSE e[i - Len(u)]
    BY Glued
  <2> QED BY <1>6, <1>8, <1>9, <2>1
<1>12. v[l + m + 1] = Slash
  <2>1. l + m + 1 \in 1 .. l + (m + 1) /\ ~(l + m + 1 <= l) /\ (l + m + 1) - l = m + 1
    OBVIOUS
  <2>2. v[l + m + 1] = e[(l + m + 1) - l]
    BY <1>11, <2>1
  <2> QED BY <1>6, <2>1, <2>2
<1>13. \A i \in 1 .. l : v[i] = u[i]
  BY <1>11
<1>14. ASSUME NEW i \in 1 .. m PROVE v[l + i] = p[i]
  <2>1. l + i \in 1 .. l + (m + 1) /\ ~(l + i <= l) /\ (l + i) - l = i
    OBVIOUS
  <2>2. v[l + i] = e[(l + i) - l]
    BY <1>11, <2>1
  <2> QED BY <1>6, <2>1, <2>2
<1>15. Len(v) = l + m + 1
  BY <1>11
<1> QED BY <1>5, <1>7, <1>8, <1>10, <1>12, <1>13, <1>14, <1>15 DEF GoesOn

(* The way along a path by slashes, with a part between each and the next. *)
Walk(c, ps, q) ==
    /\ c[1] = 1
    /\ \A i \in 1 .. Len(ps) + 1 : c[i] \in 1 .. Len(q) /\ q[c[i]] = Slash
    /\ \A i \in 1 .. Len(ps) : c[i] < c[i + 1] /\ SubSeq(q, c[i] + 1, c[i + 1] - 1) = ps[i]

(* Who walks the parts along a path has found their course at its front.   *)
LEMMA WalkStarts ==
    ASSUME NEW q \in Text, NEW c, NEW ps \in Seq(Text), Walk(c, ps, q)
    PROVE  StartsWith(Course(ps), q) /\ c[Len(ps) + 1] = Len(Course(ps))
<1> DEFINE Good(rs) == Walk(c, rs, q) => StartsWith(Course(rs), q) /\ c[Len(rs) + 1] = Len(Course(rs))
           S == {rs \in Seq(Text) : Good(rs)}
<1>1. <<>> \in S
  <2>1. PICK t \in Text : t = <<Slash>> /\ Len(t) = 1 /\ t[1] = Slash /\ t = Course(<<>>)
    <3>1. <<Slash>> \in Text
      BY DEF Slash, Byte, Text
    <3> QED BY <3>1, CourseNone
  <2>2. ASSUME Walk(c, <<>>, q) PROVE StartsWith(t, q) /\ c[Len(<<>>) + 1] = Len(t)
    <3>1. c[1] = 1 /\ 1 \in 1 .. Len(<<>>) + 1 /\ Len(<<>>) + 1 = 1
      BY <2>2 DEF Walk
    <3>2. 1 \in 1 .. Len(q) /\ q[1] = Slash
      BY <2>2, <3>1 DEF Walk
    <3>3. PICK n \in Nat : n = Len(q)
      BY DEF Text
    <3>4. StartsWith(t, q)
      BY <2>1, <3>2, <3>3 DEF StartsWith
    <3> QED BY <2>1, <3>1, <3>4
  <2>3. Good(<<>>)
    BY <2>1, <2>2
  <2> HIDE DEF Good
  <2> QED BY <2>3, EmptySeq
<1>2. ASSUME NEW rs \in S, NEW p \in Text PROVE Append(rs, p) \in S
  <2>1. rs \in Seq(Text) /\ Good(rs)
    OBVIOUS
  <2>2. PICK n \in Nat : n = Len(rs)
    BY <2>1
  <2>3. PICK ss \in Seq(Text) : ss = Append(rs, p)
    BY <2>1, AppendProperties
  <2>4. Len(ss) = n + 1 /\ ss[n + 1] = p /\ \A i \in 1 .. n : ss[i] = rs[i]
    BY <2>1, <2>2, <2>3, AppendProperties
  <2> HIDE DEF S
  <2>5. ASSUME Walk(c, ss, q) PROVE StartsWith(Course(ss), q) /\ c[n + 2] = Len(Course(ss))
    <3>1. /\ c[1] = 1
          /\ \A i \in 1 .. n + 2 : c[i] \in 1 .. Len(q) /\ q[c[i]] = Slash
          /\ \A i \in 1 .. n + 1 : c[i] < c[i + 1] /\ SubSeq(q, c[i] + 1, c[i + 1] - 1) = ss[i]
      <4>1. (n + 1) + 1 = n + 2
        OBVIOUS
      <4> QED BY <2>4, <2>5, <4>1 DEF Walk
    <3>2. Walk(c, rs, q)
      <4>1. \A i \in 1 .. n + 1 : i \in 1 .. n + 2
        OBVIOUS
      <4>2. \A i \in 1 .. n : i \in 1 .. n + 1
        OBVIOUS
      <4> QED BY <2>2, <2>4, <3>1, <4>1, <4>2 DEF Walk
    <3>3. StartsWith(Course(rs), q) /\ c[n + 1] = Len(Course(rs))
      BY <2>1, <2>2, <3>2
    <3> HIDE DEF Good
    <3>u. PICK u \in Text : u = Course(rs)
      BY <2>1, CourseIs
    <3>v. PICK v \in Text : v = Course(ss)
      BY CourseIs
    <3>l. PICK l \in Nat : l = Len(u)
      BY DEF Text
    <3>m. PICK m \in Nat : m = Len(p)
      BY DEF Text
    <3>4. /\ u = Course(rs) /\ v = Course(ss) /\ l = Len(u) /\ m = Len(p)
          /\ Len(v) = l + m + 1 /\ v[l + m + 1] = Slash
          /\ \A i \in 1 .. l : v[i] = u[i]
          /\ \A i \in 1 .. m : v[l + i] = p[i]
      <4>1. GoesOn(u, v, p)
        BY <2>1, <2>3, <3>u, <3>v, CourseMore
      <4> QED BY <4>1, <3>u, <3>v, <3>l, <3>m DEF GoesOn
    <3>5. PICK k \in Nat : k = Len(q)
      BY DEF Text
    <3>6. c[n + 1] = l /\ l <= k /\ \A i \in 1 .. l : q[i] = u[i]
      BY <3>3, <3>4, <3>5 DEF StartsWith
    <3>7. PICK e \in 1 .. k : e = c[n + 2] /\ q[e] = Slash /\ l < e
      <4>1. n + 2 \in 1 .. n + 2 /\ n + 1 \in 1 .. n + 1 /\ (n + 1) + 1 = n + 2
        OBVIOUS
      <4> QED BY <3>1, <3>5, <3>6, <4>1
    <3>8. SubSeq(q, l + 1, e - 1) = p
      <4>1. n + 1 \in 1 .. n + 1 /\ (n + 1) + 1 = n + 2
        OBVIOUS
      <4>2. SubSeq(q, c[n + 1] + 1, c[(n + 1) + 1] - 1) = ss[n + 1]
        BY <3>1, <4>1
      <4> QED BY <2>4, <3>6, <3>7, <4>1, <4>2
    <3>9. l \in Nat \ {0}
      <4>1. n + 1 \in 1 .. n + 2
        OBVIOUS
      <4> QED BY <3>1, <3>6, <4>1
    <3>10. /\ Len(SubSeq(q, l + 1, e - 1)) = e - l - 1
           /\ \A i \in 1 .. e - l - 1 : SubSeq(q, l + 1, e - 1)[i] = q[l + i]
      BY <3>5, <3>7, <3>9, ShareIs
    <3>11. e = l + m + 1 /\ \A i \in 1 .. m : p[i] = q[l + i]
      <4>1. m = e - l - 1
        BY <3>4, <3>8, <3>10
      <4>2. \A i \in 1 .. m : p[i] = q[l + i]
        BY <3>8, <3>10, <4>1
      <4>3. e = l + m + 1
        BY <3>7, <3>9, <4>1
      <4> QED BY <4>2, <4>3
    <3>12. ASSUME NEW i \in 1 .. l + m + 1 PROVE q[i] = v[i]
      <4>1. CASE i \in 1 .. l
        BY <3>4, <3>6, <4>1
      <4>2. CASE i = l + m + 1
        BY <3>4, <3>7, <3>11, <4>2
      <4>3. CASE i \notin 1 .. l /\ i # l + m + 1
        <5>1. i - l \in 1 .. m /\ l + (i - l) = i
          BY <4>3
        <5>2. v[l + (i - l)] = p[i - l] /\ p[i - l] = q[l + (i - l)]
          BY <3>4, <3>11, <5>1
        <5> QED BY <5>1, <5>2
      <4> QED BY <4>1, <4>2, <4>3
    <3>13. StartsWith(v, q)
      BY <3>4, <3>5, <3>7, <3>11, <3>12 DEF StartsWith
    <3> QED BY <3>4, <3>7, <3>11, <3>13
  <2>6. Good(ss)
    <3>1. Len(ss) + 1 = n + 2
      BY <2>4
    <3> QED BY <2>5, <3>1
  <2> HIDE DEF Good
  <2> QED BY <2>3, <2>6 DEF S
<1>3. S = Seq(Text)
  <2>1. S \in SUBSET Seq(Text)
    OBVIOUS
  <2> HIDE DEF S
  <2> QED BY <1>1, <1>2, <2>1, SequenceInduction
<1>4. ps \in S
  <2> HIDE DEF S
  <2> QED BY <1>3
<1> QED BY <1>4

(* A path that starts with the course of the parts can be walked along     *)
(* them.                                                                   *)
LEMMA StartsWalk ==
    ASSUME NEW q \in Text, NEW ps \in Seq(Text), StartsWith(Course(ps), q)
    PROVE  \E c \in [1 .. Len(ps) + 1 -> 1 .. Len(q)] : Walk(c, ps, q)
<1> DEFINE Good(rs) == StartsWith(Course(rs), q)
                       => \E c \in [1 .. Len(rs) + 1 -> 1 .. Len(q)] : Walk(c, rs, q)
           S == {rs \in Seq(Text) : Good(rs)}
<1>1. PICK k \in Nat : k = Len(q)
  BY DEF Text
<1>2. <<>> \in S
  <2>1. PICK t \in Text : t = <<Slash>> /\ Len(t) = 1 /\ t[1] = Slash /\ t = Course(<<>>)
    <3>1. <<Slash>> \in Text
      BY DEF Slash, Byte, Text
    <3> QED BY <3>1, CourseNone
  <2>2. ASSUME StartsWith(t, q)
        PROVE  \E c \in [1 .. Len(<<>>) + 1 -> 1 .. k] : Walk(c, <<>>, q)
    <3>1. 1 <= k /\ q[1] = Slash
      BY <1>1, <2>1, <2>2 DEF StartsWith
    <3>2. PICK c : c = [i \in 1 .. 1 |-> 1]
      OBVIOUS
    <3>3. Len(<<>>) = 0 /\ Len(<<>>) + 1 = 1 /\ c[1] = 1
      BY <3>2
    <3>4. c \in [1 .. 1 -> 1 .. k]
      BY <3>1, <3>2
    <3>5. Walk(c, <<>>, q)
      BY <1>1, <3>1, <3>3 DEF Walk
    <3> QED BY <3>3, <3>4, <3>5
  <2>3. Good(<<>>)
    BY <1>1, <2>1, <2>2
  <2> HIDE DEF Good
  <2> QED BY <2>3, EmptySeq
<1>3. ASSUME NEW rs \in S, NEW p \in Text PROVE Append(rs, p) \in S
  <2>1. rs \in Seq(Text) /\ Good(rs)
    OBVIOUS
  <2>2. PICK n \in Nat : n = Len(rs)
    BY <2>1
  <2>3. PICK ss \in Seq(Text) : ss = Append(rs, p)
    BY <2>1, AppendProperties
  <2>4. Len(ss) = n + 1 /\ ss[n + 1] = p /\ \A i \in 1 .. n : ss[i] = rs[i]
    BY <2>1, <2>2, <2>3, AppendProperties
  <2> HIDE DEF S
  <2>5. ASSUME StartsWith(Course(ss), q)
        PROVE  \E d \in [1 .. n + 2 -> 1 .. k] : Walk(d, ss, q)
    <3>u. PICK u \in Text : u = Course(rs)
      BY <2>1, CourseIs
    <3>v. PICK v \in Text : v = Course(ss)
      BY CourseIs
    <3>l. PICK l \in Nat : l = Len(u)
      BY DEF Text
    <3>m. PICK m \in Nat : m = Len(p)
      BY DEF Text
    <3>1. /\ u = Course(rs) /\ v = Course(ss) /\ l = Len(u) /\ m = Len(p)
          /\ Len(v) = l + m + 1 /\ v[l + m + 1] = Slash
          /\ \A i \in 1 .. l : v[i] = u[i]
          /\ \A i \in 1 .. m : v[l + i] = p[i]
      <4>1. GoesOn(u, v, p)
        BY <2>1, <2>3, <3>u, <3>v, CourseMore
      <4> QED BY <4>1, <3>u, <3>v, <3>l, <3>m DEF GoesOn
    <3>2. l + m + 1 <= k /\ \A i \in 1 .. l + m + 1 : q[i] = v[i]
      BY <1>1, <2>5, <3>1 DEF StartsWith
    <3>3. StartsWith(u, q)
      BY <1>1, <3>1, <3>2 DEF StartsWith
    <3>4. PICK c \in [1 .. n + 1 -> 1 .. k] : Walk(c, rs, q)
      BY <1>1, <2>1, <2>2, <3>1, <3>3
    <3> HIDE DEF Good
    <3>5. c[n + 1] = l
      BY <2>1, <2>2, <3>1, <3>4, WalkStarts
    <3>6. l \in Nat \ {0}
      BY <3>4, <3>5
    <3>7. PICK e \in 1 .. k : e = l + m + 1
      BY <3>2
    <3>8. PICK d : d = [i \in 1 .. n + 2 |-> IF i = n + 2 THEN e ELSE c[i]]
      OBVIOUS
    <3>9. d[n + 2] = e /\ \A i \in 1 .. n + 1 : d[i] = c[i]
      BY <3>8
    <3>10. d \in [1 .. n + 2 -> 1 .. k]
      BY <3>4, <3>8
    <3>11. /\ c[1] = 1
           /\ \A i \in 1 .. n + 1 : c[i] \in 1 .. k /\ q[c[i]] = Slash
           /\ \A i \in 1 .. n : c[i] < c[i + 1] /\ SubSeq(q, c[i] + 1, c[i + 1] - 1) = rs[i]
      BY <1>1, <2>2, <3>4 DEF Walk
    <3>12. q[e] = Slash
      <4>1. l + m + 1 \in 1 .. l + m + 1
        OBVIOUS
      <4> QED BY <3>1, <3>2, <3>7, <4>1
    <3>13. SubSeq(q, l + 1, e - 1) = p
      <4>1. PICK s \in Text : s = SubSeq(q, l + 1, e - 1) /\ Len(s) = m
                              /\ \A i \in 1 .. m : s[i] = q[l + i]
        <5>1. e - l - 1 = m /\ l < e /\ e <= k + 1 /\ e \in Nat
          BY <3>1, <3>7
        <5>2. PICK s : s = SubSeq(q, l + 1, e - 1)
          OBVIOUS
        <5>3. s \in Text /\ Len(s) = e - l - 1 /\ \A i \in 1 .. e - l - 1 : s[i] = q[l + i]
          BY <1>1, <3>6, <5>1, <5>2, ShareIs
        <5> QED BY <5>1, <5>2, <5>3
      <4>2. ASSUME NEW i \in 1 .. m PROVE s[i] = p[i]
        <5>1. l + i \in 1 .. l + m + 1
          OBVIOUS
        <5> QED BY <3>1, <3>2, <4>1, <5>1
      <4>3. s = p
        BY <3>1, <4>1, <4>2, SeqEqual DEF Text
      <4> QED BY <4>1, <4>3
    <3>14. d[1] = 1
      BY <3>9, <3>11
    <3>15. ASSUME NEW i \in 1 .. n + 2 PROVE d[i] \in 1 .. k /\ q[d[i]] = Slash
      <4>1. i = n + 2 \/ i \in 1 .. n + 1
        OBVIOUS
      <4> QED BY <3>9, <3>11, <3>12, <4>1
    <3>16. ASSUME NEW i \in 1 .. n + 1
           PROVE  d[i] < d[i + 1] /\ SubSeq(q, d[i] + 1, d[i + 1] - 1) = ss[i]
      <4>1. CASE i = n + 1
        <5>1. i + 1 = n + 2 /\ d[i] = l /\ d[i + 1] = e /\ ss[i] = p
          BY <2>4, <3>5, <3>9, <4>1
        <5>2. l < e
          BY <3>7
        <5> QED BY <3>13, <5>1, <5>2
      <4>2. CASE i # n + 1
        <5>1. i \in 1 .. n /\ i + 1 \in 1 .. n + 1 /\ i \in 1 .. n + 1
          BY <4>2
        <5> QED BY <2>4, <3>9, <3>11, <5>1
      <4> QED BY <4>1, <4>2
    <3>17. Walk(d, ss, q)
      <4>1. Len(ss) + 1 = n + 2
        BY <2>4
      <4> QED BY <1>1, <2>4, <3>14, <3>15, <3>16, <4>1 DEF Walk
    <3> QED BY <3>10, <3>17
  <2>6. Good(ss)
    <3>1. Len(ss) + 1 = n + 2
      BY <2>4
    <3> QED BY <1>1, <2>5, <3>1
  <2> HIDE DEF Good
  <2> QED BY <2>3, <2>6 DEF S
<1>4. S = Seq(Text)
  <2>1. S \in SUBSET Seq(Text)
    OBVIOUS
  <2> HIDE DEF S
  <2> QED BY <1>2, <1>3, <2>1, SequenceInduction
<1>5. ps \in S
  <2> HIDE DEF S
  <2> QED BY <1>4
<1> QED BY <1>5

(* The parts of a uri, and one that has only plain parts.                  *)
Parts(uri) == Pieces(Slash, uri, {<<>>})
AllPlain(uri) == \A i \in DOMAIN parse_route(uri) : parse_route(uri)[i].type = "equals"

(* The parts of a route without parameters, each of which is matched by    *)
(* itself alone.                                                           *)
LEMMA PartsAre ==
    ASSUME NEW uri \in Text
    PROVE  /\ Parts(uri) \in Seq(Text)
           /\ Len(parse_route(uri)) = Len(Parts(uri))
           /\ AllPlain(uri) => PlainParts(uri)
           /\ AllPlain(uri) =>
                \A i \in 1 .. Len(Parts(uri)), t \in Text :
                    Fits(parse_route(uri)[i], t) <=> t = Parts(uri)[i]
<1>1. PICK ps \in Seq(Text) : ps = Parts(uri)
  BY PiecesSeq DEF Parts
<1>2. PICK n \in Nat : n = Len(ps)
  OBVIOUS
<1>3. parse_route(uri) = [i \in 1 .. n |-> Info(ps[i])]
  BY <1>1, <1>2 DEF parse_route, Parts
<1>4. Len(parse_route(uri)) = n /\ DOMAIN parse_route(uri) = 1 .. n
  BY <1>3
<1>5. AllPlain(uri) => PlainParts(uri)
  BY DEF AllPlain, PlainParts
<1>6. ASSUME AllPlain(uri), NEW i \in 1 .. n, NEW t \in Text
      PROVE  Fits(parse_route(uri)[i], t) <=> t = ps[i]
  <2>1. PICK p \in Text : p = ps[i]
    BY <1>2
  <2>2. parse_route(uri)[i] = Info(p) /\ Info(p).type = "equals"
    <3>1. parse_route(uri)[i] = Info(p)
      BY <1>3, <2>1
    <3> QED BY <1>4, <1>6, <3>1 DEF AllPlain
  <2>3. Info(p).str = p
    <3>1. ~(p[1] = OpenBrace /\ Last(p) = CloseBrace)
      <4>1. ASSUME p[1] = OpenBrace, Last(p) = CloseBrace PROVE FALSE
        <5> DEFINE inner == SubSeq(p, 2, Len(p) - 1)
                   j == Find(Colon, inner, 1)
        <5>1. Info(p) = [type |-> IF j > Len(inner) THEN "match_all" ELSE "regex",
                         param |-> Before(inner, j), str |-> <<>>]
          <6>1. p[1] # Colon
            BY <4>1 DEF OpenBrace, Colon
          <6> QED BY <4>1, <6>1, Zenon DEF Info
        <5> HIDE DEF j, inner
        <5> QED BY <2>2, <5>1
      <4> QED BY <4>1
    <3>2. p[1] # Colon
      <4>1. ASSUME p[1] = Colon PROVE FALSE
        <5>1. Info(p) = [type |-> "match_all", param |-> Tail(p), str |-> <<>>]
          BY <3>1, <4>1, Zenon DEF Info
        <5> QED BY <2>2, <5>1
      <4> QED BY <4>1
    <3>3. Info(p) = [type |-> "equals", param |-> <<>>, str |-> p]
      BY <3>1, <3>2, Zenon DEF Info
    <3> QED BY <3>3
  <2>4. Fits(Info(p), t) <=> Reads(Quoted(p), t)
    <3>1. PICK q : q = Info(p) /\ q.type = "equals" /\ q.str = p
      BY <2>2, <2>3
    <3>2. Fits(q, t) <=> Reads(Quoted(q.str), t)
      BY <3>1 DEF Fits
    <3> QED BY <3>1, <3>2
  <2> QED BY <2>1, <2>2, <2>4, QuotedReads
<1> QED BY <1>1, <1>2, <1>4, <1>5, <1>6

(* The uri of a route without parameters: "/", or its parts each behind a  *)
(* slash.                                                                  *)
Straight(uri) == uri = <<Slash>> \/ (Parts(uri) # <<>> /\ Append(uri, Slash) = Course(Parts(uri)))

(* The root has no parts.                                                  *)
LEMMA PartsOfRoot == Parts(<<Slash>>) = <<>>
<1>1. PICK t \in Text : t = <<Slash>> /\ Len(t) = 1 /\ t[1] = Slash
  <2>1. <<Slash>> \in Text
    BY DEF Slash, Byte, Text
  <2> QED BY <2>1
<1>2. Slash \in Byte
  BY DEF Slash, Byte
<1>3. PICK e \in Text : e = <<>> /\ Len(e) = 0
  BY EmptySeq DEF Text
<1>4. Parted(t, e, Slash, e)
  BY <1>1, <1>3 DEF Parted
<1> DEFINE d == {<<>>}
<1>5. e \in d
  BY <1>3
<1> HIDE DEF d
<1>6. Pieces(Slash, t, d) = Pieces(Slash, e, d) \o Pieces(Slash, e, d)
  BY <1>2, <1>4, PiecesJoin
<1>7. Pieces(Slash, e, d) = <<>>
  <2>1. \A i \in 1 .. Len(e) : e[i] # Slash
    BY <1>3
  <2> QED BY <1>2, <1>5, <2>1, PiecesOne
<1>8. <<>> \o <<>> = <<>>
  <2>1. <<>> \in Seq(Byte)
    BY EmptySeq
  <2> QED BY <2>1, ConcatEmptySeq
<1> QED BY <1>1, <1>6, <1>7, <1>8 DEF Parts, d

(* A text before a slash.                                                  *)
LEMMA Slashed ==
    ASSUME NEW p \in Text
    PROVE  \E q \in Text, m \in Nat :
              /\ q = Append(p, Slash) /\ m = Len(p) /\ Len(q) = m + 1 /\ q[m + 1] = Slash
              /\ \A i \in 1 .. m : q[i] = p[i]
<1>1. Slash \in Byte
  BY DEF Slash, Byte
<1>2. PICK m \in Nat : m = Len(p)
  BY DEF Text
<1>3. PICK q \in Text : q = Append(p, Slash)
  BY <1>1, AppendProperties DEF Text
<1>4. Len(q) = m + 1 /\ q[m + 1] = Slash /\ \A i \in 1 .. m : q[i] = p[i]
  BY <1>1, <1>2, <1>3, AppendProperties DEF Text
<1> QED BY <1>2, <1>3, <1>4

(* The cuts of a path for plain parts are a walk along the path.           *)
LEMMA CutsWalk ==
    ASSUME NEW k \in Nat, NEW infos, Len(infos) = k + 1, NEW ps \in Seq(Text), Len(ps) = k + 1,
           \A i \in 1 .. k + 1, t \in Text : Fits(infos[i], t) <=> t = ps[i],
           NEW path \in Text, NEW q \in Text, NEW m \in Nat, m = Len(path), Len(q) = m + 1,
           q[m + 1] = Slash, \A i \in 1 .. m : q[i] = path[i],
           NEW c \in [1 .. k + 2 -> 1 .. m + 1], c[k + 2] = m + 1
    PROVE  Cut(c, infos, path, k) <=> Walk(c, ps, q)
<1>1. ASSUME NEW a \in Nat \ {0}, NEW b \in Nat, a < b, b <= m + 1
      PROVE  SubSeq(q, a + 1, b - 1) = SubSeq(path, a + 1, b - 1) /\ SubSeq(path, a + 1, b - 1) \in Text
  <2>1. PICK x : x = SubSeq(q, a + 1, b - 1)
    OBVIOUS
  <2>2. PICK y : y = SubSeq(path, a + 1, b - 1)
    OBVIOUS
  <2>3. x \in Text /\ Len(x) = b - a - 1 /\ \A i \in 1 .. b - a - 1 : x[i] = q[a + i]
    <3>1. b <= Len(q) + 1
      BY <1>1
    <3> QED BY <1>1, <2>1, <3>1, ShareIs
  <2>4. y \in Text /\ Len(y) = b - a - 1 /\ \A i \in 1 .. b - a - 1 : y[i] = path[a + i]
    BY <1>1, <2>2, ShareIs
  <2>5. \A i \in 1 .. b - a - 1 : a + i \in 1 .. m
    BY <1>1
  <2>6. x = y
    <3>1. ASSUME NEW i \in 1 .. b - a - 1 PROVE x[i] = y[i]
      <4>1. a + i \in 1 .. m
        BY <2>5
      <4>2. q[a + i] = path[a + i]
        BY <4>1
      <4> QED BY <2>3, <2>4, <4>2
    <3>2. Len(x) = Len(y) /\ x \in Seq(Byte) /\ y \in Seq(Byte) /\ Len(x) = b - a - 1
      BY <2>3, <2>4 DEF Text
    <3>3. \A i \in 1 .. Len(x) : x[i] = y[i]
      BY <3>1, <3>2
    <3> QED BY <3>2, <3>3, SeqEqual
  <2> QED BY <2>1, <2>2, <2>4, <2>6
<1>2. \A i \in 1 .. k + 2 : c[i] \in 1 .. m + 1
  OBVIOUS
<1>3. \A i \in 1 .. k + 2 : q[c[i]] = Slash <=> c[i] = m + 1 \/ path[c[i]] = Slash
  <2>1. \A i \in 1 .. k + 2 : c[i] = m + 1 \/ c[i] \in 1 .. m
    BY <1>2
  <2> QED BY <2>1
<1>4. ASSUME NEW i \in 1 .. k + 1
      PROVE  (c[i] < c[i + 1] /\ Fits(infos[i], Share(path, c, i)))
             <=> (c[i] < c[i + 1] /\ SubSeq(q, c[i] + 1, c[i + 1] - 1) = ps[i])
  <2>1. i \in 1 .. k + 2 /\ i + 1 \in 1 .. k + 2
    OBVIOUS
  <2>2. PICK a \in 1 .. m + 1 : a = c[i]
    BY <1>2, <2>1
  <2>3. PICK b \in 1 .. m + 1 : b = c[i + 1]
    BY <1>2, <2>1
  <2>4. ASSUME a < b PROVE Fits(infos[i], SubSeq(path, a + 1, b - 1)) <=> SubSeq(q, a + 1, b - 1) = ps[i]
    <3>1. SubSeq(q, a + 1, b - 1) = SubSeq(path, a + 1, b - 1) /\ SubSeq(path, a + 1, b - 1) \in Text
      <4>1. a \in Nat \ {0} /\ b \in Nat /\ b <= m + 1
        OBVIOUS
      <4> QED BY <1>1, <2>4, <4>1
    <3> QED BY <3>1
  <2> QED BY <2>2, <2>3, <2>4 DEF Share
<1>5. Cut(c, infos, path, k) <=>
          /\ \A i \in 1 .. k + 2 : c[i] = m + 1 \/ path[c[i]] = Slash
          /\ c[1] = 1
          /\ \A i \in 1 .. k + 1 : c[i] < c[i + 1] /\ Fits(infos[i], Share(path, c, i))
  BY DEF Cut
<1>6. Walk(c, ps, q) <=>
          /\ c[1] = 1
          /\ \A i \in 1 .. k + 2 : q[c[i]] = Slash
          /\ \A i \in 1 .. k + 1 : c[i] < c[i + 1] /\ SubSeq(q, c[i] + 1, c[i + 1] - 1) = ps[i]
  <2>1. Len(ps) + 1 = k + 2
    OBVIOUS
  <2> QED BY <1>2, <2>1 DEF Walk
<1> QED BY <1>3, <1>4, <1>5, <1>6

(* A route without parameters matches its own uri, and no other path.      *)
LEMMA LiteralMatches ==
    ASSUME NEW uri \in Text, AllPlain(uri), Straight(uri), NEW path \in Text
    PROVE  Matches(parse_route(uri), path) <=> path = uri
<1>1. PICK ps \in Seq(Text) : ps = Parts(uri)
  BY PartsAre
<1>2. PICK infos : infos = parse_route(uri)
  OBVIOUS
<1>3. Len(infos) = Len(ps) /\ \A i \in 1 .. Len(ps), t \in Text : Fits(infos[i], t) <=> t = ps[i]
  BY <1>1, <1>2, PartsAre
<1>4. CASE ps = <<>>
  <2>1. uri = <<Slash>>
    BY <1>1, <1>4 DEF Straight
  <2>2. infos = <<>>
    <3>1. infos = [i \in 1 .. Len(ps) |-> Info(ps[i])]
      BY <1>1, <1>2 DEF parse_route, Parts
    <3>2. Len(ps) = 0
      BY <1>4
    <3> QED BY <3>1, <3>2
  <2> QED BY <1>2, <2>1, <2>2 DEF Matches
<1>5. CASE ps # <<>>
  <2>1. PICK k \in Nat : Len(ps) = k + 1
    <3>1. Len(ps) # 0 /\ Len(ps) \in Nat
      BY <1>5, EmptySeq
    <3>2. Len(ps) - 1 \in Nat /\ Len(ps) = (Len(ps) - 1) + 1
      BY <3>1
    <3> QED BY <3>2
  <2>2. Append(uri, Slash) = Course(ps)
    BY <1>1, <1>5, PartsOfRoot DEF Straight
  <2>3. PICK q \in Text : \E m \in Nat :
              /\ q = Append(path, Slash) /\ m = Len(path) /\ Len(q) = m + 1 /\ q[m + 1] = Slash
              /\ \A i \in 1 .. m : q[i] = path[i]
    BY Slashed
  <2>4. PICK m \in Nat :
              /\ q = Append(path, Slash) /\ m = Len(path) /\ Len(q) = m + 1 /\ q[m + 1] = Slash
              /\ \A i \in 1 .. m : q[i] = path[i]
    BY <2>3
  <2>5. PICK o \in Text : o = Course(ps)
    BY CourseIs
  <2>6. q = o <=> path = uri
    <3>1. Slash \in Byte
      BY DEF Slash, Byte
    <3>2. ASSUME q = o PROVE path = uri
      <4>1. PICK r \in Text : \E n \in Nat :
              /\ r = Append(uri, Slash) /\ n = Len(uri) /\ Len(r) = n + 1 /\ r[n + 1] = Slash
              /\ \A i \in 1 .. n : r[i] = uri[i]
        BY Slashed
      <4>2. PICK n \in Nat :
              /\ r = Append(uri, Slash) /\ n = Len(uri) /\ Len(r) = n + 1 /\ r[n + 1] = Slash
              /\ \A i \in 1 .. n : r[i] = uri[i]
        BY <4>1
      <4>3. r = q
        BY <2>2, <2>5, <3>2, <4>2
      <4>4. n = m /\ \A i \in 1 .. n : uri[i] = path[i]
        BY <2>4, <4>2, <4>3
      <4> QED BY <2>4, <4>2, <4>4, SeqEqual DEF Text
    <3> QED BY <2>2, <2>4, <2>5, <3>2
  <2>7. ASSUME Matches(infos, path) PROVE q = o
    <3>1. PICK c \in Cuts(infos, path) : TRUE
      <4>1. infos # <<>>
        BY <1>3, <2>1
      <4> QED BY <2>7, <4>1 DEF Matches, Shares
    <3>2. Len(infos) = k + 1
      BY <1>3, <2>1
    <3>3. Cut(c, infos, path, k)
      BY <3>1, <3>2, CutsIs
    <3>4. c \in [1 .. k + 2 -> 1 .. m + 1] /\ c[k + 2] = m + 1
      BY <2>4, <3>3 DEF Cut
    <3>5. Walk(c, ps, q)
      <4>1. \A i \in 1 .. k + 1, t \in Text : Fits(infos[i], t) <=> t = ps[i]
        BY <1>3, <2>1
      <4> QED BY <2>1, <2>4, <3>2, <3>3, <3>4, <4>1, CutsWalk
    <3>6. StartsWith(o, q) /\ c[Len(ps) + 1] = Len(o)
      BY <2>5, <3>5, WalkStarts
    <3>7. Len(o) = Len(q)
      <4>1. Len(ps) + 1 = k + 2
        BY <2>1
      <4> QED BY <2>4, <3>4, <3>6, <4>1
    <3> QED BY <2>4, <3>6, <3>7, SeqEqual DEF StartsWith, Text
  <2>8. ASSUME q = o PROVE Matches(infos, path)
    <3>1. StartsWith(o, q)
      BY <2>8 DEF StartsWith, Text
    <3>2. PICK c \in [1 .. Len(ps) + 1 -> 1 .. Len(q)] : Walk(c, ps, q)
      BY <2>5, <3>1, StartsWalk
    <3>3. Len(ps) + 1 = k + 2
      BY <2>1
    <3>4. c \in [1 .. k + 2 -> 1 .. m + 1]
      BY <2>4, <3>2, <3>3
    <3>5. c[Len(ps) + 1] = Len(o)
      BY <2>5, <3>2, WalkStarts
    <3>6. c[k + 2] = m + 1
      BY <2>4, <2>8, <3>3, <3>5
    <3>7. Len(infos) = k + 1
      BY <1>3, <2>1
    <3>8. Cut(c, infos, path, k)
      <4>1. \A i \in 1 .. k + 1, t \in Text : Fits(infos[i], t) <=> t = ps[i]
        BY <1>3, <2>1
      <4> QED BY <2>1, <2>4, <3>2, <3>4, <3>6, <3>7, <4>1, CutsWalk
    <3>9. c \in Cuts(infos, path)
      BY <3>7, <3>8, CutsIs
    <3>10. infos # <<>>
      BY <3>7
    <3> QED BY <3>9, <3>10 DEF Matches, Shares
  <2> QED BY <1>2, <2>6, <2>7, <2>8
<1> QED BY <1>4, <1>5

(* The cuts of a path for plain parts and an open end are a walk along the *)
(* path, and what is left.                                                 *)
LEMMA CutsWalkOpen ==
    ASSUME NEW k \in Nat, NEW infos, NEW ps \in Seq(Text), Len(ps) = k,
           \A i \in 1 .. k, t \in Text : Fits(infos[i], t) <=> t = ps[i],
           infos[k + 1].type = "regex",
           NEW path \in Text, NEW m \in Nat, m = Len(path),
           NEW c \in [1 .. k + 2 -> 1 .. m + 1], c[k + 2] = m + 1
    PROVE  Cut(c, infos, path, k) <=> Walk(c, ps, path) /\ OneLine(After(path, c[k + 1]))
<1>1. \A i \in 1 .. k + 2 : c[i] \in 1 .. m + 1
  OBVIOUS
<1>2. ASSUME NEW i \in 1 .. k
      PROVE  (c[i] < c[i + 1] /\ Fits(infos[i], Share(path, c, i)))
             <=> (c[i] < c[i + 1] /\ SubSeq(path, c[i] + 1, c[i + 1] - 1) = ps[i])
  <2>1. i \in 1 .. k + 2 /\ i + 1 \in 1 .. k + 2
    OBVIOUS
  <2>2. PICK a \in 1 .. m + 1 : a = c[i]
    BY <1>1, <2>1
  <2>3. PICK b \in 1 .. m + 1 : b = c[i + 1]
    BY <1>1, <2>1
  <2>4. ASSUME a < b PROVE SubSeq(path, a + 1, b - 1) \in Text
    <3>1. a \in Nat \ {0} /\ b \in Nat /\ b <= Len(path) + 1
      OBVIOUS
    <3> QED BY <2>4, <3>1, ShareIs
  <2> QED BY <2>2, <2>3, <2>4 DEF Share
<1>3. c[k + 2] = m + 1 /\ k + 1 \in 1 .. k + 1 /\ (k + 1) + 1 = k + 2 /\ (m + 1) - 1 = m
  OBVIOUS
<1>4. Share(path, c, k + 1) = After(path, c[k + 1])
  BY <1>3 DEF Share, After
<1>5. Fits(infos[k + 1], Share(path, c, k + 1)) <=> OneLine(After(path, c[k + 1]))
  <2>1. PICK x, s : x = infos[k + 1] /\ s = Share(path, c, k + 1) /\ x.type = "regex"
    OBVIOUS
  <2>2. Fits(x, s) <=> OneLine(s)
    BY <2>1 DEF Fits
  <2> QED BY <1>4, <2>1, <2>2
<1>6. \A i \in 1 .. k + 1 : i \in 1 .. k \/ i = k + 1
  OBVIOUS
<1>7. ASSUME Cut(c, infos, path, k) PROVE Walk(c, ps, path) /\ OneLine(After(path, c[k + 1]))
  <2>1. /\ \A i \in 1 .. k + 2 : c[i] = m + 1 \/ path[c[i]] = Slash
        /\ c[1] = 1
        /\ \A i \in 1 .. k + 1 : c[i] < c[i + 1] /\ Fits(infos[i], Share(path, c, i))
    BY <1>7 DEF Cut
  <2>2. ASSUME NEW i \in 1 .. k + 1 PROVE c[i] \in 1 .. m /\ path[c[i]] = Slash
    <3>1. i \in 1 .. k + 2 /\ i + 1 \in 1 .. k + 2
      OBVIOUS
    <3>2. c[i] \in 1 .. m + 1 /\ c[i + 1] \in 1 .. m + 1 /\ c[i] < c[i + 1]
      BY <1>1, <2>1, <3>1
    <3> QED BY <2>1, <3>1, <3>2
  <2>3. \A i \in 1 .. k : c[i] < c[i + 1] /\ SubSeq(path, c[i] + 1, c[i + 1] - 1) = ps[i]
    <3>1. \A i \in 1 .. k : i \in 1 .. k + 1
      OBVIOUS
    <3> QED BY <1>2, <2>1, <3>1
  <2>4. OneLine(After(path, c[k + 1]))
    BY <1>3, <1>5, <2>1
  <2> QED BY <2>1, <2>2, <2>3, <2>4 DEF Walk
<1>8. ASSUME Walk(c, ps, path), OneLine(After(path, c[k + 1])) PROVE Cut(c, infos, path, k)
  <2>1. /\ c[1] = 1
        /\ \A i \in 1 .. k + 1 : c[i] \in 1 .. m /\ path[c[i]] = Slash
        /\ \A i \in 1 .. k : c[i] < c[i + 1] /\ SubSeq(path, c[i] + 1, c[i + 1] - 1) = ps[i]
    BY <1>8 DEF Walk
  <2>2. ASSUME NEW i \in 1 .. k + 2 PROVE c[i] = m + 1 \/ path[c[i]] = Slash
    <3>1. i = k + 2 \/ i \in 1 .. k + 1
      OBVIOUS
    <3> QED BY <2>1, <3>1
  <2>3. c[k + 1] < c[(k + 1) + 1]
    <3>1. c[k + 1] \in 1 .. m
      BY <1>3, <2>1
    <3> QED BY <1>3, <3>1
  <2>4. ASSUME NEW i \in 1 .. k + 1 PROVE c[i] < c[i + 1] /\ Fits(infos[i], Share(path, c, i))
    <3>1. CASE i = k + 1
      BY <1>5, <1>8, <2>3, <3>1
    <3>2. CASE i \in 1 .. k
      BY <1>2, <2>1, <3>2
    <3> QED BY <1>6, <3>1, <3>2
  <2> QED BY <2>1, <2>2, <2>4 DEF Cut
<1> QED BY <1>7, <1>8

(* The route of serve_dir matches what starts with the uri, if the rest    *)
(* has no line end, and the rest is the parameter.                         *)
LEMMA DirMatches ==
    ASSUME Prefix \in Text, AllPlain(Prefix), Prefix = Course(Parts(Prefix)), NEW path \in Text
    PROVE  /\ Matches(DirRoute, path) <=> StartsWith(Prefix, path) /\ OneLine(After(path, Len(Prefix)))
           /\ Matches(DirRoute, path) => get_param(DirRoute, path, FsPath) = After(path, Len(Prefix))
<1>1. PICK ps \in Seq(Text) : ps = Parts(Prefix)
  BY PartsAre
<1>2. EndsInSlash(Prefix) /\ PlainParts(Prefix)
  BY <1>1, CourseIs, PartsAre
<1>3. PICK k \in Nat : /\ EndsOpen(DirRoute, k) /\ DirRoute[k + 1].param = FsPath
                       /\ k = Len(parse_route(Prefix))
                       /\ \A i \in 1 .. k : DirRoute[i] = parse_route(Prefix)[i]
  BY <1>2, DirRouteIs
<1>4. Len(ps) = k /\ \A i \in 1 .. k, t \in Text : Fits(DirRoute[i], t) <=> t = ps[i]
  BY <1>1, <1>3, PartsAre
<1>5. PICK infos : infos = DirRoute
  OBVIOUS
<1>6. /\ EndsOpen(infos, k) /\ infos[k + 1].type = "regex" /\ infos[k + 1].param = FsPath
      /\ \A i \in 1 .. k, t \in Text : Fits(infos[i], t) <=> t = ps[i]
  BY <1>3, <1>4, <1>5 DEF EndsOpen
<1>7. PICK m \in Nat : m = Len(path)
  BY DEF Text
<1>8. ASSUME NEW c, Cut(c, infos, path, k)
      PROVE  /\ StartsWith(Prefix, path) /\ OneLine(After(path, Len(Prefix)))
             /\ c[k + 1] = Len(Prefix)
  <2>1. c \in [1 .. k + 2 -> 1 .. m + 1] /\ c[k + 2] = m + 1
    BY <1>7, <1>8 DEF Cut
  <2>2. Walk(c, ps, path) /\ OneLine(After(path, c[k + 1]))
    <3>1. Len(ps) = k /\ m = Len(path) /\ c[k + 2] = m + 1
      BY <1>4, <1>7, <2>1
    <3>2. PICK d \in [1 .. k + 2 -> 1 .. m + 1] : d = c
      BY <2>1
    <3>3. Cut(d, infos, path, k) <=> Walk(d, ps, path) /\ OneLine(After(path, d[k + 1]))
      BY <1>6, <3>1, <3>2, CutsWalkOpen
    <3> QED BY <1>8, <3>2, <3>3
  <2>3. StartsWith(Course(ps), path) /\ c[k + 1] = Len(Course(ps))
    BY <1>4, <2>2, WalkStarts
  <2> QED BY <1>1, <2>2, <2>3
<1>9. ASSUME StartsWith(Prefix, path), OneLine(After(path, Len(Prefix)))
      PROVE  \E c : Cut(c, infos, path, k)
  <2>1. PICK d \in [1 .. k + 1 -> 1 .. m] : Walk(d, ps, path)
    BY <1>1, <1>4, <1>7, <1>9, StartsWalk
  <2>2. d[k + 1] = Len(Prefix)
    BY <1>1, <1>4, <2>1, WalkStarts
  <2>3. PICK c : c = [i \in 1 .. k + 2 |-> IF i = k + 2 THEN m + 1 ELSE d[i]]
    OBVIOUS
  <2>4. c[k + 2] = m + 1 /\ \A i \in 1 .. k + 1 : c[i] = d[i]
    BY <2>3
  <2>5. c \in [1 .. k + 2 -> 1 .. m + 1]
    BY <2>1, <2>3
  <2>6. Walk(c, ps, path)
    <3>1. /\ d[1] = 1
          /\ \A i \in 1 .. k + 1 : d[i] \in 1 .. m /\ path[d[i]] = Slash
          /\ \A i \in 1 .. k : d[i] < d[i + 1] /\ SubSeq(path, d[i] + 1, d[i + 1] - 1) = ps[i]
      BY <1>4, <1>7, <2>1 DEF Walk
    <3>2. 1 \in 1 .. k + 1 /\ \A i \in 1 .. k : i \in 1 .. k + 1 /\ i + 1 \in 1 .. k + 1
      OBVIOUS
    <3>3. c[1] = 1 /\ \A i \in 1 .. k + 1 : c[i] \in 1 .. m /\ path[c[i]] = Slash
      BY <2>4, <3>1, <3>2
    <3>4. \A i \in 1 .. k : c[i] < c[i + 1] /\ SubSeq(path, c[i] + 1, c[i + 1] - 1) = ps[i]
      BY <2>4, <3>1, <3>2
    <3> QED BY <1>4, <1>7, <3>3, <3>4 DEF Walk
  <2>7. OneLine(After(path, c[k + 1]))
    <3>1. k + 1 \in 1 .. k + 1
      OBVIOUS
    <3> QED BY <1>9, <2>2, <2>4, <3>1
  <2>8. Cut(c, infos, path, k)
    BY <1>4, <1>6, <1>7, <2>4, <2>5, <2>6, <2>7, CutsWalkOpen
  <2> QED BY <2>8
<1>10. Matches(infos, path) <=> \E c : Cut(c, infos, path, k)
  BY <1>6, MatchesCut
<1>11. ASSUME Matches(infos, path) PROVE get_param(infos, path, FsPath) = After(path, Len(Prefix))
  <2>1. PICK c : Cut(c, infos, path, k)
    BY <1>10, <1>11
  <2>2. get_param(infos, path, FsPath) = After(path, c[k + 1])
    BY <1>6, <2>1, ParamIs
  <2> QED BY <1>8, <2>1, <2>2
<1> QED BY <1>5, <1>8, <1>9, <1>10, <1>11

(* What zip_fix_path makes of a path with no three slashes, and no dot     *)
(* between two, is what the operating system makes of it.                  *)
Tidy(s) == \A k \in 1 .. Len(s) - 2 : s[k] = Slash /\ s[k + 2] = Slash => s[k + 1] \notin {Slash, Dot}
Orderly(s) == s[1] # Slash /\ (Len(s) >= 2 => s[1] # Dot \/ s[2] # Slash) /\ Tidy(s)

(* The loop of zip_fix_path goes along with that which finds the names.    *)
Along(b, f, u, i) ==
    /\ f.kept = Joined(b.pieces) \o b.open
    /\ f.erased => i > 1 /\ u[i] = Slash /\ u[i - 1] = Slash
    /\ b.open = <<>> => i = 0 \/ (u[i] = Slash /\ b.pieces # <<>>)
    /\ b.open = <<Dot>> => u[i] = Dot /\ (i = 1 \/ u[i - 1] = Slash)
    /\ NoSlash(b.open)

NoNames == {<<>>, <<Dot>>}

(* A character more.                                                       *)
LEMMA AppendText ==
    ASSUME NEW s \in Text, NEW x \in Byte
    PROVE  /\ Append(s, x) \in Text /\ Len(Append(s, x)) = Len(s) + 1 /\ Len(s) \in Nat
           /\ Append(s, x)[Len(s) + 1] = x /\ \A i \in 1 .. Len(s) : Append(s, x)[i] = s[i]
           /\ Append(s, x) = s \o <<x>> /\ Append(s, x) # <<>>
<1>1. PICK a : a = Append(s, x)
  OBVIOUS
<1>2. /\ a \in Text /\ Len(a) = Len(s) + 1 /\ Len(s) \in Nat
      /\ a[Len(s) + 1] = x /\ \A i \in 1 .. Len(s) : a[i] = s[i]
  BY <1>1, AppendProperties DEF Text
<1>3. a = s \o <<x>>
  BY <1>1, AppendIsConcat DEF Text
<1>4. a # <<>>
  <2>1. Len(s) + 1 # 0 /\ Len(<<>>) = 0
    BY <1>2
  <2> QED BY <1>2, <2>1
<1> QED BY <1>1, <1>2, <1>3, <1>4

(* A character more, at the end of the second of two texts put together.   *)
LEMMA JoinedBehind ==
    ASSUME NEW j \in Text, NEW s \in Text, NEW x \in Byte
    PROVE  Append(j \o s, x) = j \o Append(s, x)
<1>1. PICK y \in Text : y = <<x>>
  <2>1. <<x>> \in Text
    BY DEF Text
  <2> QED BY <2>1
<1>2. (j \o s) \o y = j \o (s \o y)
  BY GluedInTurn
<1>3. Append(s, x) = s \o y
  BY <1>1, AppendText
<1>4. PICK z \in Text : z = j \o s
  BY Glued
<1>5. Append(z, x) = z \o y
  BY <1>1, AppendText
<1> QED BY <1>2, <1>3, <1>4, <1>5

(* The loop of zip_fix_path keeps along with that of Names.                *)
LEMMA AlongNext ==
    ASSUME NEW u \in Text, Orderly(u), NEW i \in Nat, i + 1 <= Len(u), NEW b \in CutState,
           NEW f \in FixState, Along(b, f, u, i)
    PROVE  Along(CutNext(b, u[i + 1], Slash, NoNames), Taken(f, u[i + 1]), u, i + 1)
<1>1. PICK n \in Nat : n = Len(u)
  BY DEF Text
<1>2. PICK x \in Byte : x = u[i + 1]
  BY <1>1 DEF Text
<1>3. PICK ps \in Seq(Text) : ps = b.pieces
  BY DEF CutState
<1>4. PICK o \in Text : o = b.open
  BY DEF CutState
<1>5. PICK k \in Text : k = f.kept
  BY DEF FixState
<1>6. PICK j \in Text : j = Joined(ps) /\ (j = <<>> \/ EndsInSlash(j)) /\ (ps # <<>> => EndsInSlash(j))
  BY JoinedEnds
<1>7. /\ k = j \o o
      /\ f.erased => i > 1 /\ u[i] = Slash /\ u[i - 1] = Slash
      /\ o = <<>> => i = 0 \/ (u[i] = Slash /\ ps # <<>>)
      /\ o = <<Dot>> => u[i] = Dot /\ (i = 1 \/ u[i - 1] = Slash)
      /\ NoSlash(o)
  BY <1>3, <1>4, <1>5, <1>6 DEF Along
<1>8. (i + 1) - 1 = i /\ i + 1 # 0
  OBVIOUS
<1>9. CASE x # Slash
  <2>1. PICK c \in CutState : c = CutNext(b, x, Slash, NoNames)
    BY CutState1
  <2>2. PICK a \in Text : a = Append(o, x) /\ a # <<>>
    BY AppendText
  <2>3. c.pieces = ps /\ c.open = a
    BY <1>3, <1>4, <1>9, <2>1, <2>2 DEF CutNext
  <2>4. Taken(f, x).kept = Append(k, x) /\ ~Taken(f, x).erased
    BY <1>5, <1>9 DEF Taken
  <2>5. Append(k, x) = j \o a
    BY <1>7, <2>2, JoinedBehind
  <2>6. ASSUME a = <<Dot>> PROVE u[i + 1] = Dot /\ (i + 1 = 1 \/ u[(i + 1) - 1] = Slash)
    <3>1. Len(a) = Len(o) + 1 /\ a[Len(o) + 1] = x /\ Len(o) \in Nat
      BY <2>2, AppendText
    <3>2. Len(a) = 1 /\ a[1] = Dot
      BY <2>6
    <3>3. Len(o) = 0 /\ x = Dot
      <4>1. Len(o) = 0
        <5>1. PICK l \in Nat : l = Len(o)
          BY <3>1
        <5>2. l + 1 = 1
          BY <3>1, <3>2, <5>1
        <5>3. l = 0
          BY <5>2
        <5> QED BY <5>1, <5>3
      <4> QED BY <3>1, <3>2, <4>1
    <3>4. o = <<>>
      BY <3>3, EmptySeq DEF Text
    <3> QED BY <1>2, <1>7, <1>8, <3>3, <3>4
  <2>7. NoSlash(a)
    <3>1. Len(a) = Len(o) + 1 /\ a[Len(o) + 1] = x /\ Len(o) \in Nat
          /\ \A l \in 1 .. Len(o) : a[l] = o[l]
      BY <2>2, AppendText
    <3>2. \A l \in 1 .. Len(a) : l = Len(o) + 1 \/ l \in 1 .. Len(o)
      BY <3>1
    <3> QED BY <1>7, <1>9, <3>1, <3>2 DEF NoSlash
  <2>8. Along(c, Taken(f, x), u, i + 1)
    BY <1>6, <2>2, <2>3, <2>4, <2>5, <2>6, <2>7 DEF Along
  <2> QED BY <1>2, <2>1, <2>8
<1>10. CASE x = Slash
  <2>1. PICK c \in CutState : c = CutNext(b, x, Slash, NoNames)
    BY CutState1
  <2>2. c.open = <<>> /\ c.pieces = Close(b, NoNames)
    BY <1>10, <2>1 DEF CutNext
  <2>3. NoSlash(<<>>)
    BY DEF NoSlash
  <2>4. <<>> # <<Dot>>
    OBVIOUS
  <2>5. CASE o = <<>>
    <3>1. i # 0
      <4>1. i = 0 => u[1] = Slash
        <5>1. i = 0 => i + 1 = 1
          OBVIOUS
        <5> QED BY <1>2, <1>10, <5>1
      <4> QED BY <4>1 DEF Orderly
    <3>2. u[i] = Slash /\ ps # <<>>
      BY <1>7, <2>5, <3>1
    <3>3. ~f.erased
      <4>1. ASSUME f.erased PROVE FALSE
        <5>1. i > 1 /\ u[i] = Slash /\ u[i - 1] = Slash
          BY <1>7, <4>1
        <5>2. i - 1 \in 1 .. Len(u) - 2 /\ (i - 1) + 1 = i /\ (i - 1) + 2 = i + 1
          BY <1>1, <5>1
        <5>3. u[(i - 1) + 1] \notin {Slash, Dot}
          BY <1>2, <1>10, <5>1, <5>2 DEF Orderly, Tidy
        <5> QED BY <5>1, <5>2, <5>3
      <4> QED BY <4>1
    <3>4. k = j
      BY <1>7, <2>5, ConcatEmptySeq DEF Text
    <3>5. k # <<>> /\ Last(k) = Slash
      BY <1>6, <3>2, <3>4 DEF EndsInSlash, Last
    <3>6. Taken(f, x).kept = k /\ Taken(f, x).erased
      BY <1>5, <1>10, <3>3, <3>5 DEF Taken
    <3>7. c.pieces = ps
      BY <1>3, <1>4, <2>2, <2>5 DEF Close, NoNames
    <3>8. k = j \o <<>>
      BY <3>4, ConcatEmptySeq DEF Text
    <3>9. i + 1 > 1 /\ u[(i + 1) - 1] = Slash
      BY <1>8, <3>1, <3>2
    <3>10. Along(c, Taken(f, x), u, i + 1)
      BY <1>2, <1>6, <1>10, <2>2, <2>3, <2>4, <3>2, <3>6, <3>7, <3>8, <3>9 DEF Along
    <3> QED BY <1>2, <2>1, <3>10
  <2>6. CASE o = <<Dot>>
    <3>1. u[i] = Dot /\ (i = 1 \/ u[i - 1] = Slash)
      BY <1>7, <2>6
    <3>2. i # 0
      <4>1. i = 0 => u[1] = Slash
        <5>1. i = 0 => i + 1 = 1
          OBVIOUS
        <5> QED BY <1>2, <1>10, <5>1
      <4>2. u[1] # Slash
        BY DEF Orderly
      <4> QED BY <4>1, <4>2
    <3>3. CASE i = 1
      <4>1. n >= 2 /\ u[1] = Dot /\ u[2] = Slash
        <5>1. i + 1 = 2
          BY <3>3
        <5> QED BY <1>1, <1>2, <1>10, <3>1, <3>3, <5>1
      <4> QED BY <1>1, <4>1 DEF Orderly
    <3>4. CASE i # 1
      <4>1. i - 1 \in 1 .. Len(u) - 2 /\ (i - 1) + 1 = i /\ (i - 1) + 2 = i + 1
        BY <1>1, <3>2, <3>4
      <4>2. u[i - 1] = Slash /\ u[i + 1] = Slash /\ u[i] = Dot
        BY <1>2, <1>10, <3>1, <3>4
      <4>3. u[(i - 1) + 1] \notin {Slash, Dot}
        BY <4>1, <4>2 DEF Orderly, Tidy
      <4> QED BY <4>1, <4>2, <4>3
    <3> QED BY <3>3, <3>4
  <2>7. CASE o # <<>> /\ o # <<Dot>>
    <3>1. PICK m \in Nat : Len(o) = m + 1
      BY <2>7, LastAt
    <3>2. k # <<>> /\ Last(k) # Slash
      <4>1. PICK l \in Nat : l = Len(j)
        BY DEF Text
      <4>2. Len(j \o o) = l + (m + 1)
            /\ \A r \in 1 .. l + (m + 1) : (j \o o)[r] = IF r <= l THEN j[r] ELSE o[r - l]
        <5>1. /\ Len(j \o o) = Len(j) + Len(o)
              /\ \A r \in 1 .. Len(j) + Len(o) : (j \o o)[r] = IF r <= Len(j) THEN j[r] ELSE o[r - Len(j)]
          BY Glued
        <5> QED BY <3>1, <4>1, <5>1
      <4>3. l + (m + 1) \in 1 .. l + (m + 1) /\ ~(l + (m + 1) <= l) /\ (l + (m + 1)) - l = m + 1
            /\ l + (m + 1) # 0
        OBVIOUS
      <4>4. (j \o o)[l + (m + 1)] = o[(l + (m + 1)) - l]
        BY <4>2, <4>3
      <4>5. o[m + 1] # Slash
        BY <1>7, <3>1 DEF NoSlash
      <4>6. k[Len(k)] # Slash /\ Len(k) # 0
        BY <1>7, <4>2, <4>3, <4>4, <4>5
      <4> QED BY <4>6 DEF Last
    <3>3. Taken(f, x).kept = Append(k, x) /\ ~Taken(f, x).erased
      BY <1>5, <3>2 DEF Taken
    <3>4. c.pieces = Append(ps, o)
      BY <1>3, <1>4, <2>2, <2>7 DEF Close, NoNames
    <3>5. PICK qs \in Seq(Text) : qs = Append(ps, o) /\ qs # <<>>
      <4>1. Append(ps, o) \in Seq(Text) /\ Len(Append(ps, o)) = Len(ps) + 1 /\ Len(ps) \in Nat
        BY AppendProperties
      <4>2. Len(ps) + 1 # 0 /\ Len(<<>>) = 0
        BY <4>1
      <4> QED BY <4>1, <4>2
    <3>6. PICK e \in Text : e = Joined(qs)
      BY JoinedAppend
    <3>7. Append(k, x) = e
      <4>1. Append(k, x) = j \o Append(o, x)
        BY <1>7, JoinedBehind
      <4>2. Joined(Append(ps, o)) = j \o Append(o, Slash)
        BY <1>6, JoinedAppend
      <4> QED BY <1>10, <3>5, <3>6, <4>1, <4>2
    <3>8. e = e \o <<>>
      BY ConcatEmptySeq DEF Text
    <3>9. Along(c, Taken(f, x), u, i + 1)
      BY <1>2, <1>10, <2>2, <2>3, <2>4, <3>3, <3>4, <3>5, <3>6, <3>7, <3>8 DEF Along
    <3> QED BY <1>2, <2>1, <3>9
  <2> QED BY <2>5, <2>6, <2>7
<1> QED BY <1>9, <1>10

(* What zip_fix_path makes of an orderly path that ends in a slash is its  *)
(* names put together.                                                     *)
LEMMA FixedOrderly ==
    ASSUME NEW path, NEW u \in Text, u = Stripped(path), Orderly(u), EndsInSlash(u)
    PROVE  Fixed(path) = Joined(Names(u))
<1>1. PICK n \in Nat : n = Len(u)
  BY DEF Text
<1>2. PICK g : CutsUp(g, Slash, u, NoNames, n)
  BY <1>1, CutLoop
<1>3. PICK h : Fixes(h, u, n) /\ Fixed(path) = h[n].kept
  BY <1>1, FixLoop
<1>4. /\ g \in [0 .. n -> CutState] /\ g[0] = Uncut
      /\ \A i \in 1 .. n : g[i] = CutNext(g[i - 1], u[i], Slash, NoNames)
      /\ Names(u) = Close(g[n], NoNames)
  BY <1>2 DEF CutsUp, Names, NoNames
<1>5. /\ h \in [0 .. n -> FixState] /\ h[0] = Unfixed
      /\ \A i \in 1 .. n : h[i] = Taken(h[i - 1], u[i])
  BY <1>3 DEF Fixes
<1> DEFINE S == {i \in Nat : i <= n => Along(g[i], h[i], u, i)}
<1>6. 0 \in S
  <2>1. PICK b, f : b = g[0] /\ f = h[0] /\ b.pieces = <<>> /\ b.open = <<>> /\ f.kept = <<>> /\ ~f.erased
    BY <1>4, <1>5 DEF Uncut, Unfixed
  <2>2. <<>> \o <<>> = <<>>
    <3>1. <<>> \in Seq(Byte)
      BY EmptySeq
    <3> QED BY <3>1, ConcatEmptySeq
  <2>3. NoSlash(<<>>) /\ <<>> # <<Dot>>
    BY DEF NoSlash
  <2>4. Along(b, f, u, 0)
    BY <2>1, <2>2, <2>3, JoinedNone DEF Along
  <2> QED BY <2>1, <2>4
<1>7. ASSUME NEW i \in S PROVE i + 1 \in S
  <2>1. i \in Nat /\ i + 1 \in Nat /\ (i <= n => Along(g[i], h[i], u, i))
    OBVIOUS
  <2> HIDE DEF S
  <2> SUFFICES ASSUME i + 1 <= n PROVE Along(g[i + 1], h[i + 1], u, i + 1)
      BY <2>1 DEF S
  <2>2. i + 1 \in 1 .. n /\ (i + 1) - 1 = i /\ i \in 0 .. n /\ i <= n
    BY <2>1
  <2>3. PICK b \in CutState : b = g[i]
    BY <1>4, <2>2
  <2>4. PICK f \in FixState : f = h[i]
    BY <1>5, <2>2
  <2>5. g[i + 1] = CutNext(b, u[i + 1], Slash, NoNames) /\ h[i + 1] = Taken(f, u[i + 1])
    BY <1>4, <1>5, <2>2, <2>3, <2>4
  <2>6. Along(b, f, u, i) /\ i \in Nat /\ i + 1 <= Len(u)
    BY <1>1, <2>1, <2>2, <2>3, <2>4
  <2> QED BY <2>5, <2>6, AlongNext
<1>8. S = Nat
  <2>1. S \in SUBSET Nat
    OBVIOUS
  <2> HIDE DEF S
  <2> QED BY <1>6, <1>7, <2>1, SetInduction
<1>9. Along(g[n], h[n], u, n)
  <2>1. n \in S
    <3> HIDE DEF S
    <3> QED BY <1>8
  <2> QED BY <2>1
<1>10. n \in 1 .. n /\ u[n] = Slash
  BY <1>1, EmptySeq DEF EndsInSlash, Text
<1>11. g[n].open = <<>>
  <2>1. g[n] = CutNext(g[n - 1], Slash, Slash, NoNames)
    BY <1>4, <1>10
  <2>2. PICK b : b = g[n - 1]
    OBVIOUS
  <2>3. CutNext(b, Slash, Slash, NoNames).open = <<>>
    BY DEF CutNext
  <2> QED BY <2>1, <2>2, <2>3
<1>12. PICK ps \in Seq(Text) : ps = g[n].pieces
  BY <1>4 DEF CutState
<1>13. Names(u) = ps
  BY <1>4, <1>11, <1>12 DEF Close, NoNames
<1>14. PICK j \in Text : j = Joined(ps)
  BY JoinedAppend
<1>15. h[n].kept = j \o <<>>
  BY <1>9, <1>11, <1>12, <1>14 DEF Along
<1>16. j \o <<>> = j
  BY ConcatEmptySeq DEF Text
<1> QED BY <1>3, <1>13, <1>14, <1>15, <1>16

(* A path is what is up to its last slash, and what is behind it.          *)
Divided(u, p, n) ==
    p \in Text /\ n \in Text /\ u = p \o n /\ (p = <<>> \/ EndsInSlash(p)) /\ NoSlash(n)

(* A path is what ends in its last slash and the piece behind that.        *)
LEMMA LastPiece ==
    ASSUME NEW s \in Text
    PROVE  \E p, n : Divided(s, p, n)
<1> DEFINE Good(u) == \E p, n : Divided(u, p, n)
           S == {u \in Seq(Byte) : Good(u)}
<1>1. PICK z \in Text : z = <<>> /\ NoSlash(z)
  <2>1. <<>> \in Text /\ Len(<<>>) = 0
    BY EmptySeq DEF Text
  <2> QED BY <2>1 DEF NoSlash
<1>2. <<>> \in S
  <2>1. z \o z = z
    BY <1>1, ConcatEmptySeq DEF Text
  <2>2. Divided(z, z, z)
    BY <1>1, <2>1 DEF Divided
  <2>3. Good(z)
    BY <2>2
  <2> HIDE DEF Good
  <2> QED BY <1>1, <2>3 DEF Text
<1>3. ASSUME NEW u \in S, NEW x \in Byte PROVE Append(u, x) \in S
  <2>1. u \in Text /\ Good(u)
    BY DEF Text
  <2>2. PICK p, n : Divided(u, p, n)
    BY <2>1
  <2>3. p \in Text /\ n \in Text /\ u = p \o n /\ (p = <<>> \/ EndsInSlash(p)) /\ NoSlash(n)
    BY <2>2 DEF Divided
  <2>4. PICK v \in Text : v = Append(u, x) /\ Len(v) = Len(u) + 1 /\ v[Len(u) + 1] = x /\ v # <<>>
    BY <2>1, AppendText
  <2>5. CASE x = Slash
    <3>1. EndsInSlash(v)
      BY <2>4, <2>5 DEF EndsInSlash
    <3>2. v \o z = v
      BY <1>1, ConcatEmptySeq DEF Text
    <3>3. Divided(v, v, z)
      BY <1>1, <3>1, <3>2 DEF Divided
    <3> QED BY <2>4, <3>3 DEF Text
  <2>6. CASE x # Slash
    <3>1. PICK m \in Text : m = Append(n, x) /\ Len(m) = Len(n) + 1 /\ Len(n) \in Nat
                            /\ m[Len(n) + 1] = x /\ \A i \in 1 .. Len(n) : m[i] = n[i]
      BY <2>3, AppendText
    <3>2. NoSlash(m)
      <4>1. \A i \in 1 .. Len(m) : i = Len(n) + 1 \/ i \in 1 .. Len(n)
        BY <3>1
      <4> QED BY <2>3, <2>6, <3>1, <4>1 DEF NoSlash
    <3>3. v = p \o m
      BY <2>3, <2>4, <3>1, JoinedBehind
    <3>4. Divided(v, p, m)
      BY <2>3, <3>2, <3>3 DEF Divided
    <3> QED BY <2>4, <3>4 DEF Text
  <2> QED BY <2>5, <2>6
<1>4. S = Seq(Byte)
  <2>1. S \in SUBSET Seq(Byte)
    OBVIOUS
  <2> HIDE DEF S
  <2> QED BY <1>2, <1>3, <2>1, SequenceInduction
<1>5. s \in S
  <2> HIDE DEF S
  <2> QED BY <1>4 DEF Text
<1> QED BY <1>5

(* Behind the directory's path what was tidy behind another is orderly.    *)
LEMMA OrderlyBehind ==
    ASSUME NEW d \in Text, Neat(d), EndsInSlash(d), NEW s \in Text, EndsInSlash(s),
           NEW w \in Text, Tidy(s \o w)
    PROVE  Orderly(d \o w)
<1>1. PICK a \in Nat : Len(d) = a + 1 /\ d[a + 1] = Slash
  <2>1. PICK a \in Nat : Len(d) = a + 1
    BY LastAt DEF EndsInSlash
  <2> QED BY <2>1 DEF EndsInSlash
<1>2. PICK b \in Nat : Len(s) = b + 1 /\ s[b + 1] = Slash
  <2>1. PICK b \in Nat : Len(s) = b + 1
    BY LastAt DEF EndsInSlash
  <2> QED BY <2>1 DEF EndsInSlash
<1>3. PICK n \in Nat : n = Len(w)
  BY DEF Text
<1>4. PICK u \in Text : u = d \o w
  BY Glued
<1>5. PICK v \in Text : v = s \o w
  BY Glued
<1>6. Len(u) = a + 1 + n /\ \A i \in 1 .. a + 1 + n : u[i] = IF i <= a + 1 THEN d[i] ELSE w[i - (a + 1)]
  <2>1. /\ Len(d \o w) = Len(d) + Len(w)
        /\ \A i \in 1 .. Len(d) + Len(w) : (d \o w)[i] = IF i <= Len(d) THEN d[i] ELSE w[i - Len(d)]
    BY Glued
  <2> QED BY <1>1, <1>3, <1>4, <2>1
<1>7. Len(v) = b + 1 + n /\ \A i \in 1 .. b + 1 + n : v[i] = IF i <= b + 1 THEN s[i] ELSE w[i - (b + 1)]
  <2>1. /\ Len(s \o w) = Len(s) + Len(w)
        /\ \A i \in 1 .. Len(s) + Len(w) : (s \o w)[i] = IF i <= Len(s) THEN s[i] ELSE w[i - Len(s)]
    BY Glued
  <2> QED BY <1>2, <1>3, <1>5, <2>1
<1>8. \A i \in 1 .. a + 1 : d[i] = Slash =>
        i > 1 /\ d[i - 1] # Slash /\ (d[i - 1] = Dot => i > 2 /\ d[i - 2] # Slash)
  BY <1>1 DEF Neat
<1>9. \A i \in 1 .. a + 1 : u[i] = d[i]
  BY <1>6
<1>10. a >= 1 /\ a + 1 \in 1 .. a + 1 /\ 1 \in 1 .. a + 1
  BY <1>1, <1>8
<1>11. u[1] # Slash
  BY <1>8, <1>9, <1>10
<1>12. u[1] # Dot \/ u[2] # Slash
  <2>1. 2 \in 1 .. a + 1
    BY <1>10
  <2> QED BY <1>8, <1>9, <1>10, <2>1
<1>13. \A i \in 0 .. n : u[a + 1 + i] = v[b + 1 + i]
  <2>1. ASSUME NEW i \in 1 .. n PROVE u[a + 1 + i] = v[b + 1 + i]
    <3>1. a + 1 + i \in 1 .. a + 1 + n /\ ~(a + 1 + i <= a + 1) /\ (a + 1 + i) - (a + 1) = i
      OBVIOUS
    <3>2. b + 1 + i \in 1 .. b + 1 + n /\ ~(b + 1 + i <= b + 1) /\ (b + 1 + i) - (b + 1) = i
      OBVIOUS
    <3> QED BY <1>6, <1>7, <3>1, <3>2
  <2>2. u[a + 1 + 0] = v[b + 1 + 0]
    <3>1. a + 1 + 0 = a + 1 /\ b + 1 + 0 = b + 1 /\ a + 1 \in 1 .. a + 1 + n /\ b + 1 \in 1 .. b + 1 + n
      OBVIOUS
    <3>2. u[a + 1] = d[a + 1] /\ v[b + 1] = s[b + 1]
      BY <1>6, <1>7, <3>1
    <3> QED BY <1>1, <1>2, <3>1, <3>2
  <2>3. \A i \in 0 .. n : i = 0 \/ i \in 1 .. n
    OBVIOUS
  <2> QED BY <2>1, <2>2, <2>3
<1>14. \A k \in 1 .. b + n - 1 : v[k] = Slash /\ v[k + 2] = Slash => v[k + 1] \notin {Slash, Dot}
  <2>1. Tidy(v)
    BY <1>5
  <2>2. Len(v) - 2 = b + n - 1
    BY <1>7
  <2> QED BY <2>1, <2>2 DEF Tidy
<1>15. ASSUME NEW k \in 1 .. a + n - 1, u[k] = Slash, u[k + 2] = Slash
       PROVE  u[k + 1] \notin {Slash, Dot}
  <2>1. CASE k + 2 <= a + 1
    <3>1. k + 2 \in 1 .. a + 1 /\ (k + 2) - 1 = k + 1 /\ (k + 2) - 2 = k /\ k \in 1 .. a + 1
          /\ k + 1 \in 1 .. a + 1
      BY <2>1
    <3> QED BY <1>8, <1>9, <1>15, <3>1
  <2>2. CASE k + 2 = a + 2
    <3>1. k + 1 = a + 1 /\ (a + 1) - 1 = k /\ k \in 1 .. a + 1
      BY <2>2
    <3> QED BY <1>1, <1>8, <1>9, <1>10, <1>15, <3>1
  <2>3. CASE k >= a + 1
    <3>1. PICK l \in Nat : k = a + 1 + l
      <4>1. k - (a + 1) \in Nat /\ k = a + 1 + (k - (a + 1))
        BY <2>3
      <4> QED BY <4>1
    <3>2. l \in 0 .. n /\ l + 1 \in 0 .. n /\ l + 2 \in 0 .. n /\ b + 1 + l \in 1 .. b + n - 1
      BY <3>1
    <3>3. u[a + 1 + l] = v[b + 1 + l] /\ u[a + 1 + (l + 1)] = v[b + 1 + (l + 1)]
          /\ u[a + 1 + (l + 2)] = v[b + 1 + (l + 2)]
      BY <1>13, <3>2
    <3>4. /\ a + 1 + (l + 1) = k + 1 /\ a + 1 + (l + 2) = k + 2
          /\ b + 1 + (l + 1) = (b + 1 + l) + 1 /\ b + 1 + (l + 2) = (b + 1 + l) + 2
      BY <3>1
    <3>5. v[b + 1 + l] = Slash /\ v[(b + 1 + l) + 2] = Slash /\ u[k + 1] = v[(b + 1 + l) + 1]
      BY <1>15, <3>1, <3>3, <3>4
    <3> QED BY <1>14, <3>2, <3>5
  <2> QED BY <2>1, <2>2, <2>3
<1>16. Tidy(u)
  <2>1. Len(u) - 2 = a + n - 1
    BY <1>6
  <2> QED BY <1>15, <2>1 DEF Tidy
<1> QED BY <1>4, <1>11, <1>12, <1>16 DEF Orderly

(* Nothing of what is stripped from a path is a name.                      *)
LEMMA NamesStripped ==
    ASSUME NEW s \in Text
    PROVE  Names(Stripped(s)) = Names(s)
<1>1. PICK k \in 0 .. Len(s) : k = Lead(s) /\ Stripped(s) = After(s, k)
  BY StrippedLead
<1>2. k \in Nat /\ k <= Len(s)
  BY DEF Text
<1>3. PICK a \in Text, t \in Text : a = SubSeq(s, 1, k) /\ t = After(s, k) /\ s = a \o t
  <2>1. s = SubSeq(s, 1, k) \o After(s, k) /\ SubSeq(s, 1, k) \in Text
    BY <1>2, CutInTwo
  <2>2. After(s, k) \in Text
    BY <1>2, AfterIs
  <2> QED BY <2>1, <2>2
<1>4. Len(a) = k /\ \A i \in 1 .. k : a[i] = s[i]
  BY <1>2, <1>3 DEF Text
<1>5. PICK ns \in Seq(NameText) : ns = Names(t)
  BY NamesAre
<1>6. <<>> \o ns = ns
  BY ConcatEmptySeq
<1>7. a = <<>> \/ EndsInSlash(a)
  <2>1. CASE k = 0
    BY <1>4, <2>1, EmptySeq DEF Text
  <2>2. CASE k # 0
    <3>1. k \in 1 .. k /\ s[k] = Slash
      BY <1>1, <1>2, <2>2 DEF Lead
    <3>2. a # <<>>
      <4>1. Len(<<>>) = 0
        OBVIOUS
      <4> QED BY <1>4, <2>2, <4>1
    <3> QED BY <1>4, <3>1, <3>2 DEF EndsInSlash
  <2> QED BY <2>1, <2>2
<1>8. Names(a) = <<>>
  <2>1. CASE k = 0
    <3>1. a = <<>>
      BY <1>4, <2>1, EmptySeq DEF Text
    <3> QED BY <3>1, NamesNone
  <2>2. CASE k # 0
    <3>1. PICK e \in Text : e = <<>> /\ Len(e) = 0 /\ NoSlash(e)
      <4>1. <<>> \in Text /\ Len(<<>>) = 0
        BY EmptySeq DEF Text
      <4> QED BY <4>1 DEF NoSlash
    <3>2. PICK x \in Text : NoSlash(x) /\ x \notin NameText /\ Parted(a, x, Slash, e)
      <4>1. CASE k = 1
        <5>1. s[1] = Slash
          BY <1>1, <4>1 DEF Lead
        <5>2. Parted(a, e, Slash, e)
          BY <1>4, <3>1, <4>1, <5>1 DEF Parted
        <5>3. e \notin NameText
          BY <3>1, NameIs
        <5> QED BY <3>1, <5>2, <5>3
      <4>2. CASE k # 1
        <5>1. k = 2 /\ s[1] = Dot /\ s[2] = Slash
          BY <1>1, <1>2, <2>2, <4>2 DEF Lead
        <5>2. PICK x \in Text : x = <<Dot>> /\ Len(x) = 1 /\ x[1] = Dot /\ NoSlash(x)
          <6>1. <<Dot>> \in Text /\ Dot # Slash
            BY DEF Dot, Slash, Byte, Text
          <6> QED BY <6>1 DEF NoSlash
        <5>3. Parted(a, x, Slash, e)
          BY <1>4, <3>1, <5>1, <5>2 DEF Parted
        <5>4. x \notin NameText
          BY <5>2, NameIs
        <5> QED BY <5>2, <5>3, <5>4
      <4> QED BY <4>1, <4>2
    <3>3. Names(a) = Names(x) \o Names(e)
      BY <3>2, NamesParted
    <3>4. Names(x) = <<>> /\ Names(e) = <<>>
      BY <3>1, <3>2, NamesOne, NamesNone
    <3>5. <<>> \o <<>> = <<>>
      <4>1. <<>> \in Seq(Byte)
        BY EmptySeq
      <4> QED BY <4>1, ConcatEmptySeq
    <3> QED BY <3>3, <3>4, <3>5
  <2> QED BY <2>1, <2>2
<1>9. Names(s) = Names(a) \o Names(t)
  BY <1>3, <1>7, NamesBehind
<1> QED BY <1>1, <1>3, <1>5, <1>6, <1>8, <1>9

(* What ends in a slash.                                                   *)
LEMMA EndsBehind ==
    ASSUME NEW e \in Text, EndsInSlash(e), NEW p \in Text, p = <<>> \/ EndsInSlash(p)
    PROVE  e \o p \in Text /\ EndsInSlash(e \o p)
<1>1. PICK u \in Text : u = e \o p
  BY Glued
<1>2. CASE p = <<>>
  <2>1. u = e
    BY <1>1, <1>2, ConcatEmptySeq DEF Text
  <2> QED BY <1>1, <2>1
<1>3. CASE p # <<>>
  <2>1. PICK a \in Nat : a = Len(e)
    BY DEF Text
  <2>2. PICK m \in Nat : Len(p) = m + 1 /\ p[m + 1] = Slash
    <3>1. PICK m \in Nat : Len(p) = m + 1
      BY <1>3, LastAt
    <3> QED BY <1>3, <3>1 DEF EndsInSlash
  <2>3. /\ Len(e \o p) = Len(e) + Len(p)
        /\ \A i \in 1 .. Len(e) + Len(p) : (e \o p)[i] = IF i <= Len(e) THEN e[i] ELSE p[i - Len(e)]
    BY Glued
  <2>4. Len(u) = a + (m + 1) /\ \A i \in 1 .. a + (m + 1) : u[i] = IF i <= a THEN e[i] ELSE p[i - a]
    BY <1>1, <2>1, <2>2, <2>3
  <2>5. a + (m + 1) \in 1 .. a + (m + 1) /\ ~(a + (m + 1) <= a) /\ (a + (m + 1)) - a = m + 1
        /\ a + (m + 1) # 0
    OBVIOUS
  <2>6. u[a + (m + 1)] = p[(a + (m + 1)) - a]
    BY <2>4, <2>5
  <2>7. u # <<>>
    <3>1. Len(<<>>) = 0
      OBVIOUS
    <3> QED BY <2>4, <2>5, <3>1
  <2> QED BY <1>1, <2>2, <2>4, <2>5, <2>6, <2>7 DEF EndsInSlash
<1> QED BY <1>2, <1>3

(* What a path of a request is read as, whichever the file system: its     *)
(* names.  From an archive it is to be tidy.                               *)
LEMMA SaidJoined ==
    ASSUME NEW fs, NEW d \in Text, EndsInSlash(d), NEW p \in Text, p = <<>> \/ EndsInSlash(p),
           NEW s \in Text, EndsInSlash(s),
           fs.kind = "zip" => DirName(Stripped(d)) /\ Tidy(s \o p)
    PROVE  /\ d \o p \in Text /\ EndsInSlash(d \o p)
           /\ Said(fs, d \o p) = Joined(Names(d \o p))
<1>2. d \o p \in Text /\ EndsInSlash(d \o p)
  BY EndsBehind
<1>3. CASE fs.kind = "zip"
  <2>1. PICK e \in Text : e = Stripped(d) /\ DirName(e)
    BY <1>3, StrippedIs
  <2>2. Neat(e) /\ EndsInSlash(e)
    BY <2>1, DirIs
  <2>3. PICK u \in Text : u = e \o p /\ EndsInSlash(u)
    BY <2>2, EndsBehind
  <2>4. Orderly(u)
    BY <1>3, <2>2, <2>3, OrderlyBehind
  <2>5. Stripped(d \o p) = u
    BY <2>1, <2>3, StrippedBehind
  <2>6. Fixed(d \o p) = Joined(Names(u))
    BY <2>3, <2>4, <2>5, FixedOrderly
  <2>7. Names(u) = Names(d \o p)
    BY <1>2, <2>5, NamesStripped
  <2> QED BY <1>2, <1>3, <2>6, <2>7 DEF Said
<1>4. CASE fs.kind # "zip"
  <2>1. Resolved(d \o p) = Joined(Names(d \o p))
    BY <1>2, ResolvedDir
  <2> QED BY <1>2, <1>4, <2>1 DEF Said
<1> QED BY <1>3, <1>4

(* Directories have the names of directories.                              *)
Known(contents) ==
    \A e \in DOMAIN contents :
        /\ ProperName(e) /\ (contents[e] = "dir" <=> DirName(e))
        /\ contents[e] \in Version \cup {"dir", "special"}

(* What a path names.                                                      *)
NamedBy(fs, u) ==
    {e \in DOMAIN fs.contents :
        Names(e) = Names(u) /\ (AsksDirectory(u) => fs.contents[e] = "dir")}

(* What a file system finds is what is named.                              *)
FindsNamed(fs, u) ==
    /\ Exists(fs, u) <=> NamedBy(fs, u) # {}
    /\ Exists(fs, u) => NameOf(fs, u) \in NamedBy(fs, u)

(* Nothing is no name in a file system.                                    *)
LEMMA NothingNamed ==
    ASSUME NEW fs, Known(fs.contents)
    PROVE  Nothing \notin DOMAIN fs.contents
<1>1. SUFFICES ASSUME Nothing \in DOMAIN fs.contents PROVE FALSE
    OBVIOUS
<1>2. Nothing \in Text
  BY <1>1, ProperIs DEF Known
<1>3. Len(Nothing) = 1 /\ Nothing[1] = 256
  BY DEF Nothing, Wrong
<1>4. Nothing[1] \in Byte
  BY <1>2, <1>3 DEF Text
<1> QED BY <1>3, <1>4 DEF Byte

(* A path that asks for a directory finds the one with its names.          *)
LEMMA FindsDirectory ==
    ASSUME NEW fs, Known(fs.contents), NEW u \in Text, AsksDirectory(u),
           Said(fs, u) = Joined(Names(u))
    PROVE  FindsNamed(fs, u)
<1>1. PICK ns \in Seq(NameText) : ns = Names(u)
  BY NamesAre
<1>2. NameText \subseteq Text /\ ns \in Seq(Text)
  <2>1. NameText \subseteq Text
    BY NameIs
  <2> QED BY <2>1, SeqMonotonic
<1>3. PICK r \in Text : r = Joined(ns) /\ (r = <<>> \/ EndsInSlash(r)) /\ Names(r) = ns
  BY <1>2, JoinedEnds, NamesJoined
<1>4. \A e \in DOMAIN fs.contents :
        ProperName(e) /\ (fs.contents[e] = "dir" <=> DirName(e))
  BY DEF Known
<1>5. Append(r, Slash) \notin DOMAIN fs.contents
  BY <1>3, <1>4, OneSlash, ProperIs
<1>6. NameOf(fs, u) = IF r \in DOMAIN fs.contents THEN r ELSE Nothing
  BY <1>1, <1>3, <1>5, NameSaid DEF AsName
<1>7. ASSUME NEW e \in NamedBy(fs, u) PROVE e = r
  <2>1. DirName(e) /\ Names(e) = ns
    BY <1>1, <1>4 DEF NamedBy
  <2> QED BY <1>3, <2>1 DEF DirName
<1>8. ASSUME r \in DOMAIN fs.contents PROVE r \in NamedBy(fs, u)
  <2>1. ProperName(r) /\ r # <<>>
    BY <1>4, <1>8, ProperIs
  <2>2. EndsInSlash(r)
    BY <1>3, <2>1
  <2>3. DirName(r)
    BY <2>1, <2>2, FileIs DEF ProperName
  <2> QED BY <1>1, <1>3, <1>4, <1>8, <2>3 DEF NamedBy
<1>9. Nothing \notin DOMAIN fs.contents
  BY NothingNamed
<1>10. Exists(fs, u) <=> r \in DOMAIN fs.contents
  BY <1>6, <1>9 DEF Exists
<1>11. NamedBy(fs, u) \subseteq DOMAIN fs.contents
  BY DEF NamedBy
<1> QED BY <1>6, <1>7, <1>8, <1>10, <1>11 DEF FindsNamed

(* Any other finds the file or directory with its names.                   *)
LEMMA FindsOther ==
    ASSUME NEW fs, Known(fs.contents), NEW p \in Text, NEW n \in NameText, EndsInSlash(p),
           Said(fs, p) = Joined(Names(p))
    PROVE  FindsNamed(fs, p \o n)
<1>1. n \in Text /\ NoSlash(n) /\ n # <<>> /\ n # <<Dot>>
  BY NameIs
<1>2. PICK ns \in Seq(NameText) : ns = Names(p)
  BY NamesAre
<1>3. ns \in Seq(Text)
  <2>1. NameText \subseteq Text
    BY NameIs
  <2> QED BY <2>1, SeqMonotonic
<1>4. PICK r \in Text : r = Joined(ns) /\ (r = <<>> \/ EndsInSlash(r)) /\ Names(r) = ns
  BY <1>3, JoinedEnds, NamesJoined
<1>5. PICK u \in Text : u = p \o n
  BY <1>1, Glued
<1>6. ~AsksDirectory(u)
  BY <1>1, <1>5, AsksIs
<1>7. PICK ms \in Seq(NameText) : ms = Append(ns, n)
  BY AppendProperties
<1>8. ns \o <<n>> = ms /\ Names(n) = <<n>>
  BY <1>1, <1>7, AppendIsConcat, NamesOne
<1>9. Names(u) = ms
  BY <1>1, <1>2, <1>5, <1>8, NamesBehind
<1>10. PICK t \in Text : t = r \o n
  BY <1>1, Glued
<1>11. Said(fs, u) = t
  <2>1. Said(fs, p \o n) = Said(fs, p) \o n
    BY SaidBehind
  <2>2. Said(fs, p) = r
    BY <1>2, <1>4
  <2> QED BY <1>5, <1>10, <2>1, <2>2
<1>12. Slash \in Byte
  BY DEF Slash, Byte
<1>13. PICK v \in Text : v = Append(t, Slash)
  BY <1>12, AppendText
<1>14. v = Joined(ms)
  <2>1. Joined(Append(ns, n)) = r \o Append(n, Slash)
    BY <1>1, <1>3, <1>4, JoinedAppend
  <2>2. Append(r \o n, Slash) = r \o Append(n, Slash)
    BY <1>1, <1>12, JoinedBehind
  <2> QED BY <1>7, <1>10, <1>13, <2>1, <2>2
<1>15. Names(t) = ms
  BY <1>1, <1>4, <1>8, <1>10, NamesBehind
<1>16. Names(v) = ms
  BY <1>14, NamesJoined
<1>17. \A e \in DOMAIN fs.contents : ProperName(e)
  BY DEF Known
<1>18. ASSUME NEW e \in NamedBy(fs, u) PROVE e \in {t, v}
  <2>1. e \in DOMAIN fs.contents /\ Names(e) = ms
    BY <1>9 DEF NamedBy
  <2>2. e \in Text /\ (DirName(e) \/ FileName(e))
    BY <1>17, <2>1 DEF ProperName
  <2>3. CASE DirName(e)
    BY <1>14, <2>1, <2>3 DEF DirName
  <2>4. CASE FileName(e)
    <3>1. Append(e, Slash) = Append(t, Slash)
      BY <1>13, <1>14, <2>1, <2>4 DEF FileName
    <3>2. e = t
      BY <2>2, <3>1, <1>12, AppendInjective DEF Text
    <3> QED BY <3>2
  <2> QED BY <2>2, <2>3, <2>4
<1>19. \A e \in {t, v} : e \in DOMAIN fs.contents => e \in NamedBy(fs, u)
  BY <1>6, <1>9, <1>15, <1>16 DEF NamedBy
<1>20. NameOf(fs, u) = IF t \in DOMAIN fs.contents THEN t
                       ELSE IF v \in DOMAIN fs.contents THEN v ELSE Nothing
  BY <1>11, <1>13, NameSaid DEF AsName
<1>21. Nothing \notin DOMAIN fs.contents
  BY NothingNamed
<1>22. NamedBy(fs, u) \subseteq DOMAIN fs.contents
  BY DEF NamedBy
<1>23. Exists(fs, u) <=> t \in DOMAIN fs.contents \/ v \in DOMAIN fs.contents
  BY <1>20, <1>21 DEF Exists
<1>24. FindsNamed(fs, u)
  BY <1>18, <1>19, <1>20, <1>22, <1>23 DEF FindsNamed
<1> QED BY <1>5, <1>24

(* Three texts put together.                                               *)
LEMMA Regrouped ==
    ASSUME NEW s \in Text, NEW t \in Text, NEW u \in Text, NEW v, v = s \o t,
           NEW w, w = t \o u
    PROVE  s \o w = v \o u
<1>1. s \in Seq(Byte) /\ t \in Seq(Byte) /\ u \in Seq(Byte)
  BY DEF Text
<1> QED BY <1>1, ConcatAssociative

(* The front of a tidy path is tidy.                                       *)
LEMMA TidyStart ==
    ASSUME NEW s \in Text, NEW t \in Text, Tidy(s \o t)
    PROVE  Tidy(s)
<1>1. PICK u \in Text : u = s \o t
  BY Glued
<1>2. PICK m \in Nat : m = Len(s)
  BY DEF Text
<1>3. PICK l \in Nat : l = Len(t)
  BY DEF Text
<1>4. /\ Len(s \o t) = Len(s) + Len(t)
      /\ \A i \in 1 .. Len(s) + Len(t) : (s \o t)[i] = IF i <= Len(s) THEN s[i] ELSE t[i - Len(s)]
  BY Glued
<1>5. Len(u) = m + l /\ \A i \in 1 .. m + l : u[i] = IF i <= m THEN s[i] ELSE t[i - m]
  BY <1>1, <1>2, <1>3, <1>4
<1>6. ASSUME NEW k \in 1 .. m - 2, s[k] = Slash, s[k + 2] = Slash
      PROVE  s[k + 1] \notin {Slash, Dot}
  <2>1. k \in 1 .. (m + l) - 2 /\ k + 1 \in 1 .. m + l /\ k + 2 \in 1 .. m + l /\ k \in 1 .. m + l
        /\ k <= m /\ k + 1 <= m /\ k + 2 <= m
    OBVIOUS
  <2>2. u[k] = s[k] /\ u[k + 1] = s[k + 1] /\ u[k + 2] = s[k + 2]
    BY <1>5, <2>1
  <2>3. u[k] = Slash /\ u[k + 2] = Slash => u[k + 1] \notin {Slash, Dot}
    BY <1>1, <1>5, <2>1 DEF Tidy
  <2> QED BY <1>6, <2>2, <2>3
<1> QED BY <1>2, <1>6 DEF Tidy

(* A suffix of two characters.                                             *)
LEMMA SuffixTwo ==
    ASSUME NEW a \in Byte, NEW b \in Byte, NEW s \in Text, NEW m \in Nat, Len(s) = m + 2,
           s[m + 1] = a, s[m + 2] = b
    PROVE  IsSuffix(<<a, b>>, s)
<1>1. Reverse(<<a, b>>) = <<b, a>>
  BY DEF Reverse
<1>2. PICK r : r = Reverse(s)
  OBVIOUS
<1>3. r = [i \in 1 .. m + 2 |-> s[((m + 2) - i) + 1]]
  BY <1>2 DEF Reverse
<1>4. \A i \in 1 .. m + 2 : s[((m + 2) - i) + 1] \in Byte
  <2>1. \A i \in 1 .. m + 2 : ((m + 2) - i) + 1 \in 1 .. m + 2
    OBVIOUS
  <2>2. \A i \in 1 .. m + 2 : s[i] \in Byte
    BY DEF Text
  <2> QED BY <2>1, <2>2
<1>5. r \in Text /\ Len(r) = m + 2
  BY <1>3, <1>4 DEF Text
<1>6. r[1] = b /\ r[2] = a
  <2>1. 1 \in 1 .. m + 2 /\ 2 \in 1 .. m + 2 /\ ((m + 2) - 1) + 1 = m + 2 /\ ((m + 2) - 2) + 1 = m + 1
    OBVIOUS
  <2> QED BY <1>3, <2>1
<1>7. IsPrefix(<<b, a>>, r)
  <2>1. m + 2 >= 2
    OBVIOUS
  <2> QED BY <1>5, <1>6, <2>1, PrefixTwo
<1> QED BY <1>1, <1>2, <1>7 DEF IsSuffix

(* A path with a dot behind its last slash.                                *)
LEMMA DotBehind ==
    ASSUME NEW q \in Text, EndsInSlash(q)
    PROVE  IsSuffix(<<Slash, Dot>>, q \o <<Dot>>)
<1>1. Slash \in Byte /\ Dot \in Byte
  BY DEF Slash, Dot, Byte
<1>2. PICK m \in Nat : Len(q) = m + 1
  BY LastAt DEF EndsInSlash
<1>3. q[m + 1] = Slash
  BY <1>2 DEF EndsInSlash
<1>4. PICK u \in Text : u = Append(q, Dot) /\ u = q \o <<Dot>>
  BY <1>1, AppendText
<1>5. Len(u) = Len(q) + 1 /\ u[Len(q) + 1] = Dot /\ \A i \in 1 .. Len(q) : u[i] = q[i]
  BY <1>1, <1>4, AppendText
<1>6. (m + 1) + 1 = m + 2 /\ m + 1 \in 1 .. m + 1
  OBVIOUS
<1>7. Len(u) = m + 2 /\ u[m + 2] = Dot
  BY <1>2, <1>5, <1>6
<1>8. u[m + 1] = Slash
  BY <1>2, <1>3, <1>5, <1>6
<1>9. IsSuffix(<<Slash, Dot>>, u)
  BY <1>1, <1>7, <1>8, SuffixTwo
<1> QED BY <1>4, <1>9

(* What is found behind the directory served, for what is left of a path   *)
(* behind the prefix.                                                      *)
LEMMA DirFinds ==
    ASSUME NEW fs, Known(fs.contents), Dir \in Text, EndsInSlash(Dir), Prefix \in Text,
           EndsInSlash(Prefix), fs.kind = "zip" => DirName(Stripped(Dir)),
           NEW w \in Text, NEW path \in Text, path = Prefix \o w,
           fs.kind = "zip" => Tidy(path) /\ ~IsSuffix(<<Slash, Dot>>, path)
    PROVE  Dir \o w \in Text /\ FindsNamed(fs, Dir \o w)
<1>1. PICK p, n : Divided(w, p, n)
  BY LastPiece
<1>2. p \in Text /\ n \in Text /\ w = p \o n /\ (p = <<>> \/ EndsInSlash(p)) /\ NoSlash(n)
  BY <1>1 DEF Divided
<1>3. PICK q \in Text : q = Prefix \o p
  BY <1>2, Glued
<1>4. PICK r \in Text : r = Dir \o p
  BY <1>2, Glued
<1>5. path = q \o n
  BY <1>2, <1>3, Regrouped
<1>6. Dir \o w = r \o n
  <2>1. p \in Text /\ n \in Text /\ w = p \o n /\ r = Dir \o p
    BY <1>2, <1>4
  <2> QED BY <2>1, Regrouped, SMTT(30)
<1>7. fs.kind = "zip" => Tidy(q)
  BY <1>2, <1>3, <1>5, TidyStart
<1>8. EndsInSlash(r) /\ Said(fs, r) = Joined(Names(r))
  <2>1. fs.kind = "zip" => DirName(Stripped(Dir)) /\ Tidy(Prefix \o p)
    BY <1>3, <1>7
  <2>2. EndsInSlash(Dir \o p) /\ Said(fs, Dir \o p) = Joined(Names(Dir \o p))
    BY <1>2, <2>1, SaidJoined
  <2> QED BY <1>4, <2>2
<1>9. PICK u \in Text : u = r \o n
  BY <1>2, Glued
<1>10. CASE n = <<>>
  <2>1. u = r
    BY <1>9, <1>10, ConcatEmptySeq DEF Text
  <2>2. AsksDirectory(u)
    BY <1>2, <1>8, <1>9, <1>10, AsksIs
  <2> QED BY <1>6, <1>8, <1>9, <2>1, <2>2, FindsDirectory
<1>11. CASE n = <<Dot>>
  <2>1. fs.kind # "zip"
    <3>1. ASSUME fs.kind = "zip" PROVE FALSE
      <4>1. EndsInSlash(q)
        BY <1>2, <1>3, EndsBehind
      <4>2. IsSuffix(<<Slash, Dot>>, q \o <<Dot>>)
        BY <4>1, DotBehind
      <4> QED BY <1>5, <1>11, <3>1, <4>2
    <3> QED BY <3>1
  <2>2. AsksDirectory(u)
    BY <1>2, <1>8, <1>9, <1>11, AsksIs
  <2>3. Said(fs, u) = Joined(Names(u))
    BY <2>1, <2>2 DEF Said, Resolved
  <2> QED BY <1>6, <1>9, <2>2, <2>3, FindsDirectory
<1>12. CASE n \notin {<<>>, <<Dot>>}
  <2>1. n \in NameText
    BY <1>2, <1>12, NameIs
  <2> QED BY <1>6, <1>8, <1>9, <2>1, FindsOther
<1> QED BY <1>10, <1>11, <1>12

(* The same, for what a request asks for.                                  *)
LEMMA NamedAre ==
    ASSUME NEW fs, Dir \in Text, EndsInSlash(Dir), Wanted \in Text
    PROVE  Named(fs.contents) = NamedBy(fs, Dir \o Wanted)
<1>1. Names(Dir \o Wanted) = Names(Dir) \o Names(Wanted)
  BY NamesBehind
<1> QED BY <1>1 DEF Named, NamedBy

(* A path that starts with the prefix.                                     *)
LEMMA BehindPrefix ==
    ASSUME NEW t \in Text, NEW path \in Text, StartsWith(t, path)
    PROVE  After(path, Len(t)) \in Text /\ path = t \o After(path, Len(t))
<1>1. PICK k \in Nat : k = Len(t)
  BY DEF Text
<1>2. k <= Len(path) /\ \A j \in 1 .. k : path[j] = t[j]
  BY <1>1 DEF StartsWith
<1>3. After(path, k) \in Text
  BY <1>2, AfterIs
<1>4. path = SubSeq(path, 1, k) \o After(path, k)
  BY <1>2, CutInTwo
<1>5. SubSeq(path, 1, k) = t
  <2>1. 0 + k = k /\ 0 + 1 = 1 /\ \A j \in 1 .. k : 0 + j = j
    OBVIOUS
  <2>2. 0 + k <= Len(path) /\ \A j \in 1 .. k : path[0 + j] = t[j]
    BY <1>2, <2>1
  <2>3. SubSeq(path, 0 + 1, 0 + k) = t
    BY <1>1, <2>2, Slice
  <2> QED BY <2>1, <2>3
<1> QED BY <1>1, <1>3, <1>4, <1>5

(* Where zip_fix_path leaves nothing, the path is tidy.                    *)
LEMMA NotLeft ==
    ASSUME Path(request.resource) \in Text, ~LeftByZip
    PROVE  Tidy(Path(request.resource)) /\ ~IsSuffix(<<Slash, Dot>>, Path(request.resource))
<1>1. PICK path \in Text : path = Path(request.resource)
  OBVIOUS
<1>2. PICK m \in Nat : m = Len(path)
  BY DEF Text
<1>3. ASSUME NEW k \in 1 .. m - 2, path[k] = Slash, path[k + 2] = Slash,
             NEW c \in {Slash, Dot}, path[k + 1] = c
      PROVE  FALSE
  <2>1. PICK t \in Text : t = <<Slash, c, Slash>> /\ Len(t) = 3 /\ t[1] = Slash /\ t[2] = c /\ t[3] = Slash
    <3>1. <<Slash, c, Slash>> \in Text
      BY DEF Slash, Dot, Byte, Text
    <3> QED BY <3>1
  <2>2. PICK o \in Nat : o = k - 1
    OBVIOUS
  <2>3. o + 3 <= m /\ o + 1 = k /\ o + 2 = k + 1 /\ o + 3 = k + 2
    BY <2>2
  <2>4. \A j \in 1 .. 3 : path[o + j] = t[j]
    BY <1>3, <2>1, <2>3
  <2>5. SubSeq(path, o + 1, o + 3) = t
    BY <1>2, <2>1, <2>3, <2>4, Slice
  <2>6. SubSeq(path, k, k + 2) = <<Slash, c, Slash>>
    BY <2>1, <2>3, <2>5
  <2>7. k \in 1 .. Len(path) - 2
    BY <1>2
  <2> QED BY <1>1, <2>6, <2>7 DEF LeftByZip
<1>4. Tidy(path)
  BY <1>2, <1>3 DEF Tidy
<1> QED BY <1>1, <1>4 DEF LeftByZip

(* The names in a name and one more behind it.                             *)
LEMMA NamesLonger ==
    ASSUME NEW d \in Text, EndsInSlash(d), NEW n \in NameText
    PROVE  /\ Names(d \o n) = Append(Names(d), n)
           /\ Names(Append(d \o n, Slash)) = Append(Names(d), n)
           /\ Append(d \o n, Slash) = d \o Append(n, Slash)
<1>1. n \in Text /\ NoSlash(n) /\ Slash \in Byte
  BY NameIs DEF Slash, Byte
<1>2. PICK ds \in Seq(NameText) : ds = Names(d)
  BY NamesAre
<1>3. Append(ds, n) = ds \o <<n>>
  BY AppendIsConcat
<1>4. Names(d \o n) = ds \o Names(n) /\ Names(n) = <<n>>
  BY <1>1, <1>2, NamesBehind, NamesOne
<1>5. Append(d \o n, Slash) = d \o Append(n, Slash)
  BY <1>1, JoinedBehind
<1>6. PICK t \in Text : t = Append(n, Slash) /\ Names(t) = <<n>>
  BY NamesDir
<1>7. Names(d \o t) = ds \o <<n>>
  BY <1>2, <1>6, NamesBehind
<1> QED BY <1>2, <1>3, <1>4, <1>5, <1>6, <1>7

(* A member more, and without it again.                                    *)
LEMMA FrontLast ==
    ASSUME NEW T, NEW s \in Seq(T), NEW x \in T
    PROVE  Append(s, x) # <<>> /\ Front(Append(s, x)) = s /\ Last(Append(s, x)) = x
<1>1. PICK m \in Nat : m = Len(s)
  OBVIOUS
<1>2. PICK u \in Seq(T) : u = Append(s, x) /\ Len(u) = m + 1 /\ u[m + 1] = x
  BY <1>1, AppendProperties
<1>3. u # <<>>
  BY <1>2
<1>4. Last(u) = x
  BY <1>2 DEF Last
<1>5. Front(u) = s
  <2>1. Len(u) - 1 = m
    BY <1>2
  <2>2. SubSeq(u, 1, m) \in Seq(T) /\ Len(SubSeq(u, 1, m)) = m /\ Append(SubSeq(u, 1, m), u[m + 1]) = u
    BY <1>2, LastOff
  <2>3. SubSeq(u, 1, m) = s
    BY <1>2, <2>2, AppendInjective
  <2> QED BY <2>1, <2>3 DEF Front
<1> QED BY <1>2, <1>3, <1>4, <1>5

(* A sequence is all but its last member, and that member.                 *)
LEMMA TakenApart ==
    ASSUME NEW T, NEW s \in Seq(T), s # <<>>
    PROVE  Front(s) \in Seq(T) /\ Last(s) \in T /\ s = Append(Front(s), Last(s))
<1>1. PICK m \in Nat : Len(s) = m + 1
  <2>1. Len(s) \in Nat /\ Len(s) # 0
    BY EmptySeq
  <2>2. Len(s) - 1 \in Nat /\ Len(s) = (Len(s) - 1) + 1
    BY <2>1
  <2> QED BY <2>2
<1>2. /\ SubSeq(s, 1, m) \in Seq(T) /\ s[m + 1] \in T
      /\ Append(SubSeq(s, 1, m), s[m + 1]) = s
  BY <1>1, LastOff
<1>3. Len(s) - 1 = m
  BY <1>1
<1> QED BY <1>1, <1>2, <1>3 DEF Front, Last

(* The entries of a directory are what has its names and one more; the     *)
(* last of them is the short name.                                         *)
LEMMA EntriesInside ==
    ASSUME NEW fs, Known(fs.contents), NEW dir \in Text, DirName(dir)
    PROVE  /\ Entries(fs, dir) = Inside(fs.contents, dir)
           /\ \A e \in Entries(fs, dir) :
                 ShortName(dir, e) \in NameText /\ Last(Names(e)) = ShortName(dir, e)
<1>1. PICK ds \in Seq(NameText) : ds = Names(dir) /\ dir = Joined(ds)
  BY NamesAre DEF DirName
<1>2. EndsInSlash(dir)
  BY DirIs
<1>3. ASSUME NEW e \in Entries(fs, dir)
      PROVE  /\ e \in Inside(fs.contents, dir)
             /\ ShortName(dir, e) \in NameText /\ Last(Names(e)) = ShortName(dir, e)
  <2>1. e \in DOMAIN fs.contents /\ ProperName(e) /\ IsEntry(dir, e)
    BY DEF Entries, Known
  <2>2. PICK n \in NameText : n = ShortName(dir, e) /\ (e = dir \o n \/ e = Append(dir \o n, Slash))
    BY <1>2, <2>1, EntryListed
  <2>3. Names(e) = Append(ds, n)
    BY <1>1, <1>2, <2>2, NamesLonger
  <2>4. Names(e) # <<>> /\ Front(Names(e)) = ds /\ Last(Names(e)) = n
    BY <2>3, FrontLast
  <2> QED BY <1>1, <2>1, <2>2, <2>4 DEF Inside
<1>4. ASSUME NEW e \in Inside(fs.contents, dir)
      PROVE  e \in Entries(fs, dir)
  <2>1. e \in DOMAIN fs.contents /\ Names(e) # <<>> /\ Front(Names(e)) = ds
    BY <1>1 DEF Inside
  <2>2. e \in Text /\ (DirName(e) \/ FileName(e))
    BY <2>1 DEF Known, ProperName
  <2>3. PICK es \in Seq(NameText) : es = Names(e)
    BY <2>2, NamesAre
  <2>4. PICK n \in NameText : es = Append(ds, n)
    BY <2>1, <2>3, TakenApart
  <2>5. n \in Text /\ ds \in Seq(Text) /\ Slash \in Byte
    <3>1. NameText \subseteq Text
      BY NameIs
    <3> QED BY <3>1, SeqMonotonic DEF Slash, Byte
  <2>6. Joined(es) = Append(dir \o n, Slash)
    <3>1. Joined(Append(ds, n)) = Joined(ds) \o Append(n, Slash)
      BY <2>5, JoinedAppend
    <3>2. Append(dir \o n, Slash) = dir \o Append(n, Slash)
      BY <1>2, NamesLonger
    <3> QED BY <1>1, <2>4, <3>1, <3>2
  <2>7. e = dir \o n \/ e = Append(dir \o n, Slash)
    <3>1. CASE DirName(e)
      BY <2>3, <2>6, <3>1 DEF DirName
    <3>2. CASE FileName(e)
      <4>1. PICK t \in Text : t = dir \o n
        BY <2>5, Glued
      <4>2. Append(e, Slash) = Append(t, Slash)
        BY <2>3, <2>6, <3>2, <4>1 DEF FileName
      <4>3. e = t
        BY <2>2, <2>5, <4>2, AppendInjective DEF Text
      <4> QED BY <4>1, <4>3
    <3> QED BY <2>2, <3>1, <3>2
  <2>8. IsEntry(dir, e)
    BY <2>7, EntryMade
  <2> QED BY <2>1, <2>8 DEF Entries
<1>5. Entries(fs, dir) = Inside(fs.contents, dir)
  BY <1>3, <1>4
<1> QED BY <1>3, <1>5

(* A link names the entry.                                                 *)
LEMMA LinkNames ==
    ASSUME NEW n \in NameText
    PROVE  Last(Names(Link(n))) = n
<1>1. n \in Text /\ NoSlash(n)
  BY NameIs
<1>2. PICK t \in Text : t = <<Dot, Slash>> /\ Len(t) = 2 /\ t[1] = Dot /\ t[2] = Slash
  <2>1. <<Dot, Slash>> \in Text
    BY DEF Dot, Slash, Byte, Text
  <2> QED BY <2>1
<1>3. EndsInSlash(t)
  BY <1>2 DEF EndsInSlash
<1>4. PICK o \in Text : o = <<Dot>> /\ Len(o) = 1 /\ o[1] = Dot
  <2>1. <<Dot>> \in Text
    BY DEF Dot, Byte, Text
  <2> QED BY <2>1
<1>5. PICK e \in Text : e = <<>> /\ Len(e) = 0
  BY EmptySeq DEF Text
<1>6. Parted(t, o, Slash, e)
  BY <1>2, <1>4, <1>5 DEF Parted
<1>7. Names(t) = Names(o) \o Names(e)
  BY <1>6, NamesParted
<1>8. Names(o) = <<>> /\ Names(e) = <<>>
  <2>1. Dot # Slash
    BY DEF Dot, Slash
  <2>2. NoSlash(o)
    BY <1>4, <2>1 DEF NoSlash
  <2>3. o \notin NameText
    BY <1>4, NameIs
  <2> QED BY <1>5, <2>2, <2>3, NamesOne, NamesNone
<1>9. Names(t) = <<>>
  BY <1>7, <1>8
<1>10. Names(t \o n) = Names(t) \o Names(n)
  BY <1>1, <1>3, NamesBehind
<1>11. Names(n) = <<n>>
  BY <1>1, NamesOne
<1>12. Names(Link(n)) = <<n>>
  BY <1>2, <1>9, <1>10, <1>11 DEF Link
<1> QED BY <1>12 DEF Last

(* A listing names what is inside.                                         *)
LEMMA ListsInside ==
    ASSUME NEW fs, Known(fs.contents), NEW dir \in Text, DirName(dir), NEW links,
           links = {Link(n) : n \in GetFiles(fs, dir)}
    PROVE  {Last(Names(l)) : l \in links} = {Last(Names(e)) : e \in Inside(fs.contents, dir)}
<1>1. Entries(fs, dir) = Inside(fs.contents, dir)
  BY EntriesInside
<1>2. \A e \in Entries(fs, dir) : Last(Names(Link(ShortName(dir, e)))) = Last(Names(e))
  BY EntriesInside, LinkNames
<1>3. links = {Link(ShortName(dir, e)) : e \in Entries(fs, dir)}
  BY DEF GetFiles
<1>4. {Last(Names(l)) : l \in links} = {Last(Names(Link(ShortName(dir, e)))) : e \in Entries(fs, dir)}
  BY <1>3
<1>5. {Last(Names(Link(ShortName(dir, e)))) : e \in Entries(fs, dir)} =
      {Last(Names(e)) : e \in Entries(fs, dir)}
  BY <1>2
<1> QED BY <1>1, <1>4, <1>5

(* How a directory has to be served for the theorem below: as for          *)
(* ListingLeads; by a prefix without parameters and with one slash between *)
(* its parts; next to literal routes without parameters, written as the    *)
(* paths they stand for; from an archive by a path that is the name of a   *)
(* directory once "./" or "/" is stripped; to clients that have a version  *)
(* of the file or none.                                                    *)
ServedByName ==
    /\ ServedAsDirectory
    /\ AllPlain(Prefix) /\ Prefix = Course(Parts(Prefix))
    /\ \A uri \in Literals : uri \in Text /\ AllPlain(uri) /\ Straight(uri)
    /\ \A f \in Sites : f.kind = "zip" => DirName(Stripped(Dir))
    /\ \A r \in Requests : r.since \in Version \cup {"none"}

(* What is served, and to whom the request was routed.                     *)
Placed ==
    /\ Known(site.contents) /\ Known(history[1])
    /\ site.kind = "zip" => DirName(Stripped(Dir))
    /\ request.since \in Version \cup {"none"}
    /\ pc \in {"get_file"} \cup Looking => Chosen /\ Path(request.resource) \notin Literals

(* The inductive invariant.                                                *)
NameInv == LinkInv /\ Placed /\ AnsweredByName

(* Nothing is answered at first.                                           *)
LEMMA NameInit == ServedByName /\ Init => NameInv
<1> SUFFICES ASSUME ServedByName, Init PROVE NameInv
    OBVIOUS
<1>1. LinkInv
  BY LinkInit DEF ServedByName
<1>2. pc = "start" /\ history[1] = site.contents /\ site \in Sites /\ request \in Requests
  BY DEF Init
<1>3. Known(site.contents)
  BY <1>2, SitesHoldFiles DEF Known
<1>4. Placed
  BY <1>2, <1>3 DEF Placed, Looking, ServedByName
<1>5. AnsweredByName
  BY <1>2 DEF AnsweredByName
<1> QED BY <1>1, <1>4, <1>5 DEF NameInv

(* What a path is routed to.                                               *)
LEMMA LiteralRouted ==
    ASSUME ServedByName, Path(request.resource) \in Text
    PROVE  \A uri \in Literals : Routed(uri) <=> Path(request.resource) = uri
BY LiteralMatches DEF ServedByName, Routed

(* What the request names is found, and nothing else.                      *)
Sought ==
    /\ Exists(site, FilePath) <=> Named(site.contents) # {}
    /\ Exists(site, FilePath) => NameOf(site, FilePath) \in Named(site.contents)

(* A path is routed to the directory if it starts with the prefix, and     *)
(* what it asks for is found by its names.                                 *)
LEMMA DirRouted ==
    ASSUME ServedByName, Placed, request.resource \in Text
    PROVE  /\ Matches(DirRoute, Path(request.resource)) <=>
                 IsPrefix(Prefix, Path(request.resource)) /\ OneLine(Wanted)
           /\ Matches(DirRoute, Path(request.resource)) /\ ~(site.kind = "zip" /\ LeftByZip) => Sought
<1>1. PICK path \in Text : path = Path(request.resource)
  BY PathIs
<1>2. Prefix \in Text /\ AllPlain(Prefix) /\ Prefix = Course(Parts(Prefix)) /\ EndsInSlash(Prefix)
      /\ Dir \in Text /\ EndsInSlash(Dir)
  BY DEF ServedByName, ServedAsDirectory
<1>3. PICK w : w = Wanted /\ w = After(path, Len(Prefix))
  BY <1>1 DEF Wanted
<1>4. /\ Matches(DirRoute, path) <=> StartsWith(Prefix, path) /\ OneLine(w)
      /\ Matches(DirRoute, path) => get_param(DirRoute, path, FsPath) = w
  BY <1>2, <1>3, DirMatches
<1>5. IsPrefix(Prefix, path) <=> StartsWith(Prefix, path)
  BY <1>2, PrefixIs DEF StartsWith
<1>6. ASSUME Matches(DirRoute, path), ~(site.kind = "zip" /\ LeftByZip)
      PROVE  Sought
  <2>1. w \in Text /\ path = Prefix \o w
    BY <1>2, <1>3, <1>4, <1>6, BehindPrefix
  <2>2. FilePath = Dir \o w
    BY <1>1, <1>4, <1>6 DEF FilePath
  <2>3. site.kind = "zip" => Tidy(path) /\ ~IsSuffix(<<Slash, Dot>>, path)
    BY <1>1, <1>6, NotLeft
  <2>4. Known(site.contents) /\ (site.kind = "zip" => DirName(Stripped(Dir)))
    BY DEF Placed
  <2>5. FindsNamed(site, Dir \o w)
    BY <1>2, <2>1, <2>3, <2>4, DirFinds
  <2>6. Named(site.contents) = NamedBy(site, Dir \o w)
    BY <1>2, <1>3, <2>1, NamedAre
  <2> QED BY <2>2, <2>5, <2>6 DEF FindsNamed, Sought
<1> QED BY <1>1, <1>3, <1>4, <1>5, <1>6

(* What a step leaves alone if it changes neither the files nor the        *)
(* request.                                                                *)
LEMMA SameNames ==
    ASSUME site' = site, request' = request
    PROVE  /\ Wanted' = Wanted
           /\ LeftByZip' <=> LeftByZip
           /\ Named(site.contents)' = Named(site.contents)
BY DEF Wanted, LeftByZip, Named

(* An answer that lists what is inside a directory.                        *)
Lists(a, contents, dir) ==
    /\ a.status = 200
    /\ {Last(Names(l)) : l \in a.links} = {Last(Names(e)) : e \in Inside(contents, dir)}

(* An answer that is all of one version.                                   *)
Whole(a, v) == a.status = 200 /\ a.lmodified = v /\ a.size = v /\ ToSet(a.body) = {v}

(* What is expected where something is named.                              *)
LEMMA AnswerGiven ==
    ASSUME site' = site, request' = request, allow_listing' = allow_listing,
           IsUri(request.resource), Path(request.resource) \notin Literals,
           IsPrefix(Prefix, Path(request.resource)), OneLine(Wanted),
           request.since \in Version \cup {"none"},
           NEW e \in Named(site.contents), NEW is, is = site.contents[e],
           \/ is = request.since /\ answer' = [status |-> 304, lmodified |-> request.since]
           \/ is \in Version /\ is # request.since
              /\ Whole(answer', is)
           \/ is = "dir" /\ allow_listing
              /\ IF \E o \in Inside(site.contents, e) : site.contents[o] = "special"
                 THEN answer' = Failed(500)
                 ELSE Lists(answer', site.contents, e)
           \/ is # request.since /\ is \notin Version /\ ~(is = "dir" /\ allow_listing)
              /\ answer' = Failed(404)
    PROVE  IsExpected(site.contents)'
<1>1. Wanted' = Wanted /\ Named(site.contents)' = Named(site.contents)
  BY SameNames
<1>2. Named(site.contents) # {}
  OBVIOUS
<1>3. "dir" \notin Version /\ request.since # "dir"
  BY DEF Version
<1>4. SUFFICES
        CASE site.contents[e] = request.since -> answer' = [status |-> 304, lmodified |-> request.since]
          [] site.contents[e] \in Version /\ site.contents[e] # request.since ->
                Whole(answer', site.contents[e])
          [] site.contents[e] = "dir" /\ allow_listing ->
                IF \E o \in Inside(site.contents, e) : site.contents[o] = "special"
                THEN answer' = Failed(500) ELSE Lists(answer', site.contents, e)
          [] OTHER -> answer' = Failed(404)
  <2>1. IsExpected(site.contents)' <=>
          \E x \in Named(site.contents) :
            CASE site.contents[x] = request.since -> answer' = [status |-> 304, lmodified |-> request.since]
              [] site.contents[x] \in Version /\ site.contents[x] # request.since ->
                    Whole(answer', site.contents[x])
              [] site.contents[x] = "dir" /\ allow_listing ->
                    IF \E o \in Inside(site.contents, x) : site.contents[o] = "special"
                    THEN answer' = Failed(500) ELSE Lists(answer', site.contents, x)
              [] OTHER -> answer' = Failed(404)
    <3>1. \A v : IsServed(v)' <=> Whole(answer', v)
      BY DEF IsServed, Whole
    <3>2. \A x : IsListed(site.contents, x)' <=> Lists(answer', site.contents, x)
      BY DEF IsListed, Lists, Inside
    <3> QED BY <1>1, <1>2, <3>1, <3>2 DEF IsExpected
  <2> QED BY <2>1
<1>5. CASE is = request.since
  <2>1. answer' = [status |-> 304, lmodified |-> request.since]
    BY <1>3, <1>5
  <2> QED BY <1>3, <1>5, <2>1
<1>6. CASE is \in Version /\ is # request.since
  BY <1>3, <1>6
<1>7. CASE is = "dir" /\ allow_listing
  BY <1>3, <1>7
<1>8. CASE is # request.since /\ is \notin Version /\ ~(is = "dir" /\ allow_listing)
  BY <1>3, <1>8
<1> QED BY <1>5, <1>6, <1>7, <1>8

(* The same for a directory that is to be listed.                          *)
LEMMA DirectoryGiven ==
    ASSUME site' = site, request' = request, allow_listing' = allow_listing,
           IsUri(request.resource), Path(request.resource) \notin Literals,
           IsPrefix(Prefix, Path(request.resource)), OneLine(Wanted),
           request.since \in Version \cup {"none"}, allow_listing,
           NEW e \in Named(site.contents), site.contents[e] = "dir",
           NEW special \in BOOLEAN, special = \E o \in Inside(site.contents, e) : site.contents[o] = "special",
           special => answer' = Failed(500), ~special => Lists(answer', site.contents, e)
    PROVE  IsExpected(site.contents)'
<1>1. PICK is : is = site.contents[e]
  OBVIOUS
<1>2. IF \E o \in Inside(site.contents, e) : site.contents[o] = "special"
      THEN answer' = Failed(500) ELSE Lists(answer', site.contents, e)
  OBVIOUS
<1>3. is = "dir" /\ allow_listing
      /\ IF \E o \in Inside(site.contents, e) : site.contents[o] = "special"
         THEN answer' = Failed(500) ELSE Lists(answer', site.contents, e)
  BY <1>1, <1>2
<1> QED BY <1>1, <1>3, AnswerGiven

(* The request is routed, and its path looked for.                         *)
LEMMA NameRoute ==
    ASSUME ServedByName, NameInv, InvalidUri \/ RouteLiteral \/ NoRoute \/ CheckExists
    PROVE  NameInv'
<1>0. LinkInv'
  BY LinkRoute DEF ServedByName, NameInv
<1>1. UNCHANGED <<site, allow_listing, request, history, followed, entry>> /\ pc = "start"
      /\ pc' \in {"done", "get_file"}
  BY DEF InvalidUri, RouteLiteral, NoRoute, CheckExists, Ends, Goes
<1>2. request.resource \in Text /\ Path(request.resource) \in Text /\ Placed
  BY PathIs DEF NameInv, LinkInv, Listing
<1>3. \A uri \in Literals : Routed(uri) <=> Path(request.resource) = uri
  BY <1>2, LiteralRouted
<1>4. has_param(DirRoute, FsPath)
  BY HasParam DEF ServedByName
<1>5. CASE InvalidUri
  <2>1. ~IsUri(request.resource) /\ pc' = "done" /\ answer' = Failed(500)
    BY <1>5 DEF InvalidUri, Ends
  <2>2. IsExpected(site.contents)'
    BY <1>1, <2>1 DEF IsExpected
  <2> QED BY <1>0, <1>1, <1>2, <2>1, <2>2 DEF NameInv, Placed, Looking, AnsweredByName
<1>6. CASE RouteLiteral
  <2>1. PICK uri \in Literals : Routed(uri) /\ answer' = [status |-> 200, by |-> uri]
    BY <1>6 DEF RouteLiteral, Ends
  <2>2. IsUri(request.resource) /\ pc' = "done" /\ Path(request.resource) = uri
    BY <1>3, <1>6, <2>1 DEF RouteLiteral, Ends
  <2>3. IsExpected(site.contents)'
    BY <1>1, <2>1, <2>2 DEF IsExpected
  <2> QED BY <1>0, <1>1, <1>2, <2>2, <2>3 DEF NameInv, Placed, Looking, AnsweredByName
<1>7. CASE NoRoute
  <2>1. /\ IsUri(request.resource) /\ Path(request.resource) \notin Literals
        /\ ~Matches(DirRoute, Path(request.resource)) /\ pc' = "done" /\ answer' = Failed(404)
    BY <1>3, <1>7 DEF NoRoute, Ends
  <2>2. ~IsPrefix(Prefix, Path(request.resource)) \/ ~OneLine(Wanted)
    BY <1>2, <2>1, DirRouted
  <2>3. IsExpected(site.contents)'
    BY <1>1, <2>1, <2>2, SameNames DEF IsExpected
  <2> QED BY <1>0, <1>1, <1>2, <2>1, <2>3 DEF NameInv, Placed, Looking, AnsweredByName
<1>8. CASE CheckExists
  <2>1. /\ IsUri(request.resource) /\ Path(request.resource) \notin Literals
        /\ Matches(DirRoute, Path(request.resource))
    BY <1>3, <1>8 DEF CheckExists
  <2>2. \/ Exists(site, FilePath) /\ pc' = "get_file" /\ answer' = answer
        \/ ~Exists(site, FilePath) /\ pc' = "done" /\ answer' = Failed(404)
    BY <1>4, <1>8, Zenon DEF CheckExists, Goes, Ends
  <2>3. Chosen' /\ Path(request'.resource) \notin Literals
    BY <1>1, <2>1, Same DEF Chosen
  <2>4. Placed'
    BY <1>1, <1>2, <2>3 DEF Placed
  <2>6. ASSUME pc' = "done", ~(site.kind = "zip" /\ LeftByZip) PROVE IsExpected(site.contents)'
    <3>1. answer' = Failed(404) /\ Named(site.contents) = {}
      BY <1>2, <2>1, <2>2, <2>6, DirRouted DEF Sought
    <3> QED BY <1>1, <2>1, <3>1, SameNames DEF IsExpected
  <2>7. AnsweredByName'
    BY <1>1, <2>6, SameNames DEF AnsweredByName
  <2> QED BY <1>0, <2>4, <2>7 DEF NameInv
<1> QED BY <1>5, <1>6, <1>7, <1>8

(* What was sought is what is found, as long as nothing changes.           *)
LEMMA Found ==
    ASSUME ServedByName, NameInv, pc \in Looking, Len(history) = 1,
           ~(site.kind = "zip" /\ LeftByZip)
    PROVE  /\ IsUri(request.resource) /\ Path(request.resource) \notin Literals
           /\ IsPrefix(Prefix, Path(request.resource)) /\ OneLine(Wanted)
           /\ request.since \in Version \cup {"none"}
           /\ entry.name \in Named(site.contents) /\ ~Gone
           /\ site.contents[entry.name] \in Version \cup {"dir", "special"}
           /\ pc # "status" => entry.is = Type(site.contents[entry.name])
<1>1. /\ Chosen /\ Path(request.resource) \notin Literals
      /\ request.since \in Version \cup {"none"} /\ Placed /\ Known(site.contents)
      /\ request.resource \in Text
  BY DEF NameInv, Placed, LinkInv, Listing
<1>2. /\ Exists(site, FilePath) /\ entry.name = NameOf(site, FilePath)
      /\ pc # "status" => entry.is = Type(site.contents[entry.name])
  BY DEF NameInv, LinkInv, Inv, Quiet
<1>3. IsPrefix(Prefix, Path(request.resource)) /\ OneLine(Wanted) /\ Sought
  BY <1>1, DirRouted DEF Chosen
<1>4. entry.name \in Named(site.contents) /\ entry.name \in DOMAIN site.contents
  BY <1>2, <1>3 DEF Sought, Named
<1> QED BY <1>1, <1>2, <1>3, <1>4 DEF Chosen, Known, Gone

(* A step of the handler.                                                  *)
LEMMA NameStep ==
    ASSUME NameInv, LinkInv', UNCHANGED <<site, allow_listing, request, history>>,
           pc \in {"get_file"} \cup Looking, pc' \in {"get_file", "done"} \cup Looking,
           pc' = "done" /\ Len(history) = 1 /\ ~(site.kind = "zip" /\ LeftByZip)
              => IsExpected(site.contents)'
    PROVE  NameInv'
<1>1. Chosen /\ Path(request.resource) \notin Literals /\ Placed
  BY DEF NameInv, Placed
<1>2. Placed'
  BY <1>1, Same DEF Placed
<1>3. AnsweredByName'
  BY SameNames DEF AnsweredByName
<1> QED BY <1>2, <1>3 DEF NameInv

(* get_file finds what exists was asked about.                             *)
LEMMA NameCanonical ==
    ASSUME ServedByName, NameInv, Canonical
    PROVE  NameInv'
<1>1. LinkInv'
  BY LinkCanonical DEF ServedByName, NameInv
<1>2. UNCHANGED <<site, allow_listing, request, history>> /\ pc = "get_file"
  BY DEF Canonical, Ends, Goes
<1>3. Len(history) = 1 => Exists(site, FilePath)
  BY <1>2 DEF NameInv, LinkInv, Inv, Quiet
<1>4. pc' = "status" \/ (pc' = "done" /\ ~Exists(site, FilePath))
  BY DEF Canonical, Ends, Goes
<1> QED BY <1>1, <1>2, <1>3, <1>4, NameStep DEF Looking

(* The looks of get_file find it there, and the handler decides by what    *)
(* they found.                                                             *)
LEMMA NameLooks ==
    ASSUME ServedByName, NameInv, Status \/ LastWriteTime \/ FileSize \/ Decide
    PROVE  NameInv'
<1>1. LinkInv'
  BY LinkLooks DEF ServedByName, NameInv
<1>2. UNCHANGED <<site, allow_listing, request, history>> /\ pc \in Looking
  BY DEF Status, LastWriteTime, FileSize, Decide, Ends, Goes, Looking
<1>3. CASE Status \/ LastWriteTime \/ FileSize
  <2>1. pc' \in {"last_write_time", "file_size", "is_file"} \/ (pc' = "done" /\ Gone)
    BY <1>3 DEF Status, LastWriteTime, FileSize, Ends, Goes
  <2>2. Len(history) = 1 /\ ~(site.kind = "zip" /\ LeftByZip) => ~Gone
    BY <1>2, Found
  <2> QED BY <1>1, <1>2, <2>1, <2>2, NameStep DEF Looking
<1>4. CASE Decide
  <2>1. \/ /\ entry.is = "file" /\ entry.lmodified = request.since /\ pc' = "done"
           /\ answer' = [status |-> 304, lmodified |-> request.since]
        \/ pc' = "open_file"
        \/ pc' = "get_files"
        \/ entry.is # "file" /\ ~(entry.is = "dir" /\ allow_listing)
           /\ pc' = "done" /\ answer' = Failed(404)
    BY <1>4 DEF Decide, NotModified, Goes, Ends
  <2>2. ASSUME pc' = "done", Len(history) = 1, ~(site.kind = "zip" /\ LeftByZip)
        PROVE  IsExpected(site.contents)'
    <3>1. /\ IsUri(request.resource) /\ Path(request.resource) \notin Literals
          /\ IsPrefix(Prefix, Path(request.resource)) /\ OneLine(Wanted)
          /\ request.since \in Version \cup {"none"}
          /\ entry.name \in Named(site.contents)
          /\ site.contents[entry.name] \in Version \cup {"dir", "special"}
          /\ pc # "status" => entry.is = Type(site.contents[entry.name])
      BY <1>2, <2>2, Found
    <3>2. PICK is : is = site.contents[entry.name]
      OBVIOUS
    <3>3. entry.is = Type(is) /\ entry.lmodified = is
      <4>1. pc = "is_file"
        BY <1>4 DEF Decide
      <4> QED BY <2>2, <3>1, <3>2, <4>1 DEF NameInv, LinkInv, Inv, Quiet
    <3>4. \/ is = request.since /\ answer' = [status |-> 304, lmodified |-> request.since]
          \/ is # request.since /\ is \notin Version /\ ~(is = "dir" /\ allow_listing)
             /\ answer' = Failed(404)
      <4>1. CASE entry.lmodified = request.since
                 /\ answer' = [status |-> 304, lmodified |-> request.since]
        BY <3>3, <4>1
      <4>2. CASE entry.is # "file" /\ ~(entry.is = "dir" /\ allow_listing) /\ answer' = Failed(404)
        <5>1. is \in {"dir", "special"}
          BY <3>1, <3>2, <3>3, <4>2 DEF Type, Version
        <5>2. is # request.since /\ is \notin Version /\ ~(is = "dir" /\ allow_listing)
          BY <3>1, <3>3, <4>2, <5>1 DEF Type, Version
        <5> QED BY <4>2, <5>2
      <4> QED BY <2>1, <2>2, <4>1, <4>2
    <3> QED BY <1>2, <3>1, <3>2, <3>4, AnswerGiven
  <2>3. pc' \in {"open_file", "get_files", "done"}
    BY <2>1
  <2> QED BY <1>1, <1>2, <2>2, <2>3, NameStep DEF Looking
<1> QED BY <1>3, <1>4

(* A file is opened and sent that nobody has touched.                      *)
LEMMA NameSend ==
    ASSUME ServedByName, NameInv, Open \/ Send
    PROVE  NameInv'
<1>1. LinkInv'
  BY LinkSend DEF NameInv
<1>2. UNCHANGED <<site, allow_listing, request, history>> /\ pc \in Looking
  BY DEF Open, Send, Ends, Looking
<1>3. CASE Open
  <2>1. pc' = "send_body" \/ (pc' = "done" /\ Gone)
    BY <1>3 DEF Open, Ends
  <2>2. Len(history) = 1 /\ ~(site.kind = "zip" /\ LeftByZip) => ~Gone
    BY <1>2, Found
  <2> QED BY <1>1, <1>2, <2>1, <2>2, NameStep DEF Looking
<1>4. CASE Send
  <2>1. ASSUME Len(history) = 1, ~(site.kind = "zip" /\ LeftByZip)
        PROVE  IsExpected(site.contents)'
    <3>1. /\ IsUri(request.resource) /\ Path(request.resource) \notin Literals
          /\ IsPrefix(Prefix, Path(request.resource)) /\ OneLine(Wanted)
          /\ request.since \in Version \cup {"none"}
          /\ entry.name \in Named(site.contents)
          /\ site.contents[entry.name] \in Version \cup {"dir", "special"}
          /\ pc # "status" => entry.is = Type(site.contents[entry.name])
      BY <1>2, <2>1, Found
    <3>2. PICK is, b : is = site.contents[entry.name] /\ b = answer.body
      OBVIOUS
    <3>3. /\ entry.is = "file" /\ entry.is = Type(is) /\ entry.lmodified # request.since
          /\ entry.lmodified = is /\ entry.size = is /\ stream.reads = is /\ b \in Seq({is})
          /\ answer = [status |-> 200, lmodified |-> is, size |-> is, body |-> b]
      <4>1. pc = "send_body"
        BY <1>4 DEF Send
      <4>2. Quiet /\ Held
        BY DEF NameInv, LinkInv, Inv
      <4>3. /\ entry.is = "file" /\ entry.lmodified # request.since
            /\ answer = [status |-> 200, lmodified |-> entry.lmodified, size |-> entry.size,
                         body |-> answer.body]
        BY <4>1, <4>2 DEF Held, NotModified
      <4>4. /\ entry.lmodified = is /\ entry.size = is /\ stream.reads = is /\ b \in Seq({is})
        BY <2>1, <3>2, <4>1, <4>2, <4>3 DEF Quiet
      <4> QED BY <3>1, <3>2, <4>1, <4>3, <4>4
    <3>4. is \in Version
      BY <3>1, <3>2, <3>3 DEF Type
    <3>5. answer' = [status |-> 200, lmodified |-> is, size |-> is, body |-> Append(b, is)]
      BY <1>4, <3>3 DEF Send
    <3>6. ToSet(Append(b, is)) = {is}
      <4>1. PICK c, n : c = Append(b, is) /\ n = Len(b)
        OBVIOUS
      <4>2. n \in Nat /\ DOMAIN c = 1 .. n + 1 /\ c[n + 1] = is /\ c \in Seq({is})
        BY <3>3, <4>1
      <4>3. \A i \in 1 .. n + 1 : c[i] = is
        BY <4>2
      <4> QED BY <4>1, <4>2, <4>3 DEF ToSet
    <3>7. Whole(answer', is) /\ is # request.since
      BY <3>3, <3>5, <3>6 DEF Whole
    <3> QED BY <1>2, <3>1, <3>2, <3>4, <3>7, AnswerGiven
  <2>2. pc' \in {"send_body", "done"}
    BY <1>4 DEF Send
  <2> QED BY <1>1, <1>2, <2>1, <2>2, NameStep DEF Looking
<1> QED BY <1>3, <1>4

(* A directory is listed.                                                  *)
LEMMA NameList ==
    ASSUME ServedByName, NameInv, List
    PROVE  NameInv'
<1>0. LinkInv'
  BY LinkList DEF NameInv
<1>1. /\ UNCHANGED <<site, allow_listing, request, history>>
      /\ pc = "get_files" /\ pc \in Looking /\ pc' = "done" /\ entry.is = "dir" /\ allow_listing
      /\ answer' = IF Listable(site, entry.name)
                   THEN [status |-> 200, links |-> {Link(n) : n \in GetFiles(site, entry.name)}]
                   ELSE Failed(500)
  BY DEF List, Ends, NameInv, LinkInv, Inv, Held, Listing, Looking
<1>3. ASSUME Len(history) = 1, ~(site.kind = "zip" /\ LeftByZip)
      PROVE  IsExpected(site.contents)'
  <2>1. PICK e : e = entry.name
    OBVIOUS
  <2>2. /\ IsUri(request.resource) /\ Path(request.resource) \notin Literals
        /\ IsPrefix(Prefix, Path(request.resource)) /\ OneLine(Wanted)
        /\ request.since \in Version \cup {"none"}
        /\ e \in Named(site.contents) /\ site.contents[e] = "dir"
    <3>1. /\ site.contents[e] \in Version \cup {"dir", "special"}
          /\ Type(site.contents[e]) = "dir"
      BY <1>1, <1>3, <2>1, Found
    <3>2. site.contents[e] = "dir"
      BY <3>1 DEF Type, Version
    <3> QED BY <1>1, <1>3, <2>1, <3>2, Found
  <2>3. e \in DOMAIN site.contents /\ Known(site.contents)
    BY <2>2 DEF Named, NameInv, Placed
  <2>4. e \in Text /\ DirName(e) /\ ProperFiles(site)
    BY <2>2, <2>3 DEF Known, ProperName, ProperFiles
  <2>5. NameOf(site, e) = e /\ Exists(site, e)
    BY <2>3, <2>4, NameFound
  <2>6. Entries(site, e) = Inside(site.contents, e)
    BY <2>3, <2>4, EntriesInside
  <2>7. site.kind # "os" => \A o \in Inside(site.contents, e) : site.contents[o] # "special"
    BY DEF NameInv, LinkInv, WellNamed, Inside
  <2>8. Listable(site, e) <=> ~\E o \in Inside(site.contents, e) : site.contents[o] = "special"
    <3>1. TypeOf(site, e) = "dir"
      BY <2>2, <2>5 DEF TypeOf, Type
    <3> QED BY <2>6, <2>7, <3>1 DEF Listable
  <2>9. ASSUME Listable(site, e) PROVE Lists(answer', site.contents, e)
    <3>1. answer'.status = 200 /\ answer'.links = {Link(n) : n \in GetFiles(site, e)}
      BY <1>1, <2>1, <2>9
    <3>2. {Last(Names(l)) : l \in answer'.links} = {Last(Names(o)) : o \in Inside(site.contents, e)}
      BY <2>3, <2>4, <3>1, ListsInside
    <3> QED BY <3>1, <3>2 DEF Lists
  <2>10. PICK special \in BOOLEAN :
            special = \E o \in Inside(site.contents, e) : site.contents[o] = "special"
    OBVIOUS
  <2>11. (special => answer' = Failed(500)) /\ (~special => Lists(answer', site.contents, e))
    BY <1>1, <2>1, <2>8, <2>9, <2>10
  <2> QED BY <1>1, <2>2, <2>10, <2>11, DirectoryGiven
<1> QED BY <1>0, <1>1, <1>3, NameStep

(* Somebody changes a file: then the answer is no longer this property's   *)
(* concern.                                                                *)
LEMMA NameChange ==
    ASSUME ServedByName, NameInv, Change
    PROVE  NameInv'
<1>0. LinkInv'
  BY LinkChange DEF NameInv
<1>1. /\ site.kind = "os" /\ pc # "done" /\ history' = Append(history, site'.contents)
      /\ UNCHANGED <<allow_listing, request, pc>>
  BY DEF Change
<1>2. PICK f \in DOMAIN history[1] :
         /\ history[1][f] \in Version /\ site'.kind = "os"
         /\ \/ site'.contents = Restrict(site.contents, DOMAIN site.contents \ {f})
            \/ \E v \in Version : site'.contents = [x \in DOMAIN site.contents \cup {f} |->
                                                      IF x = f THEN v ELSE site.contents[x]]
  BY Changed
<1>3. Len(history') # 1 /\ history'[1] = history[1]
  <2>1. PICK c, h : c = site'.contents /\ h = history' /\ h = Append(history, c)
    BY <1>1
  <2>2. /\ Len(history) \in Nat \ {0} /\ Len(h) = Len(history) + 1
        /\ \A i \in 1 .. Len(history) : h[i] = history[i]
    BY <2>1, Appended DEF NameInv, LinkInv, Inv
  <2> QED BY <2>1, <2>2
<1>4. ProperName(f) /\ ~DirName(f)
  BY <1>2 DEF NameInv, Placed, Known, Version
<1>5. Known(site'.contents)
  <2>1. Known(site.contents)
    BY DEF NameInv, Placed
  <2>2. "dir" \notin Version
    BY DEF Version
  <2>3. CASE site'.contents = Restrict(site.contents, DOMAIN site.contents \ {f})
    BY <2>1, <2>3 DEF Known, Restrict
  <2>4. ASSUME NEW v \in Version,
               site'.contents = [x \in DOMAIN site.contents \cup {f} |->
                                    IF x = f THEN v ELSE site.contents[x]]
        PROVE  Known(site'.contents)
    BY <1>4, <2>1, <2>2, <2>4 DEF Known
  <2> QED BY <1>2, <2>3, <2>4
<1>6. Placed'
  <2>1. Chosen' <=> Chosen
    BY <1>1 DEF Chosen
  <2> QED BY <1>1, <1>2, <1>3, <1>5, <2>1 DEF NameInv, Placed
<1> QED BY <1>0, <1>1, <1>3, <1>6 DEF NameInv, AnsweredByName

(* A link is followed: a new request, in quiet again.                      *)
LEMMA NameFollow ==
    ASSUME ServedByName, NameInv, Follow
    PROVE  NameInv'
<1>0. LinkInv'
  BY LinkFollow DEF ServedByName, NameInv
<1>1. UNCHANGED <<site, allow_listing>> /\ pc' = "start" /\ history' = <<site.contents>>
      /\ request'.since = "none"
  BY DEF Follow
<1>2. history'[1] = site.contents
  BY <1>1
<1>3. Placed'
  BY <1>1, <1>2 DEF NameInv, Placed, Looking
<1>4. AnsweredByName'
  BY <1>1 DEF AnsweredByName
<1> QED BY <1>0, <1>3, <1>4 DEF NameInv

(* Every step keeps the invariant.                                         *)
LEMMA NameNext ==
    ASSUME ServedByName, NameInv, [Next]_vars
    PROVE  NameInv'
<1>1. CASE InvalidUri \/ RouteLiteral \/ NoRoute \/ CheckExists
  BY <1>1, NameRoute
<1>2. CASE Canonical
  BY <1>2, NameCanonical
<1>3. CASE Status \/ LastWriteTime \/ FileSize \/ Decide
  BY <1>3, NameLooks
<1>8. CASE Open \/ Send
  BY <1>8, NameSend
<1>4. CASE List
  BY <1>4, NameList
<1>5. CASE Change
  BY <1>5, NameChange
<1>6. CASE Follow
  BY <1>6, NameFollow
<1>7. CASE UNCHANGED vars
  <2>1. LinkInv'
    BY <1>7, LinkNext DEF ServedByName, NameInv
  <2>2. UNCHANGED <<site, allow_listing, request, pc, answer, history>>
    BY <1>7 DEF vars
  <2>3. Placed'
    BY <2>2, Same DEF NameInv, Placed
  <2>4. IsExpected(site.contents)' <=> IsExpected(site.contents)
    BY <2>2 DEF IsExpected, IsListed, IsServed, Named, Wanted
  <2>5. AnsweredByName'
    BY <2>2, <2>4, SameNames DEF NameInv, AnsweredByName
  <2> QED BY <2>1, <2>3, <2>5 DEF NameInv
<1> QED BY <1>1, <1>2, <1>3, <1>4, <1>5, <1>6, <1>7, <1>8 DEF Next

(* The answer is that of the file or directory with the names in the       *)
(* resource, from either file system, and a literal route is chosen by its *)
(* own path alone: whatever the files, the requests without "..", the      *)
(* literal routes, the prefix and the directory are, if they are as        *)
(* ServedByName says.                                                      *)
THEOREM AnswersByName == ASSUME ServedByName PROVE Spec => []AnsweredByName
<1>1. Init => NameInv
  BY NameInit
<1>2. NameInv /\ [Next]_vars => NameInv'
  BY NameNext
<1>3. NameInv => AnsweredByName
  BY DEF NameInv
<1> QED BY <1>1, <1>2, <1>3, PTL DEF Spec

=============================================================================
