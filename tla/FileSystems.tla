---------------------------- MODULE FileSystems ----------------------------
(***************************************************************************)
(* The file systems behind serve_dir (filesystem.cpp): the files of the    *)
(* operating system, and those of a zip archive.                           *)
(*                                                                         *)
(* The contents map names to what is there: a version of a file ("v1"),    *)
(* which stands for its size, bytes and time of modification, "dir", or    *)
(* "special" for what is neither.  The names of directories end in "/".    *)
(* A path is a text as it is put together for a request.                   *)
(***************************************************************************)
EXTENDS Naturals, SequencesExt, Uri

Nothing == <<Wrong>>    \* no name

(* The names in contents: a text without empty names or dots, and a slash  *)
(* behind every name but that of a file.                                   *)
DirName(e) == e # <<>> /\ e = Joined(Names(e))
FileName(e) == Append(e, Slash) = Joined(Names(e))
ProperName(e) == e \in Text /\ (DirName(e) \/ FileName(e))

-----------------------------------------------------------------------------
(* zip_fix_path: "./" or "/" is stripped, and a second slash erased; the   *)
(* loop goes on behind the erased one and takes what it finds there.       *)
Stripped(path) ==
    IF IsPrefix(<<Dot, Slash>>, path) THEN After(path, 2)
    ELSE IF IsPrefix(<<Slash>>, path) THEN Tail(path)
    ELSE path

Taken(before, c) ==
    IF ~before.erased /\ c = Slash /\ before.kept # <<>> /\ Last(before.kept) = Slash
    THEN [kept |-> before.kept, erased |-> TRUE]
    ELSE [kept |-> Append(before.kept, c), erased |-> FALSE]

Fixed(path) ==
    LET p == Stripped(path)
        fixed[i \in 0 .. Len(p)] ==
            IF i = 0 THEN [kept |-> <<>>, erased |-> FALSE] ELSE Taken(fixed[i - 1], p[i])
    IN  fixed[Len(p)].kept

(* A path whose last piece means nothing asks for a directory.             *)
AsksDirectory(path) == Last(Pieces(Slash, path, {})) \in {<<>>, <<Dot>>}

(* The model reads no path that leads upwards: the operating system would  *)
(* take ".." for the directory above, and an archive for a name.           *)
GoesUp(path) == <<Dot, Dot>> \in ToSet(Pieces(Slash, path, {}))

(* The operating system's reading of a path that does not lead upwards: it *)
(* goes by the names in it.                                                *)
Resolved(path) ==
    LET names == Names(path)
    IN  IF AsksDirectory(path) THEN Joined(names) ELSE Joined(Front(names)) \o Last(names)

(* A path that is no name may be that of a directory. *)
AsName(fs, p) ==
    IF p \in DOMAIN fs.contents THEN p
    ELSE IF Append(p, Slash) \in DOMAIN fs.contents THEN Append(p, Slash)
    ELSE Nothing

OsName(fs, path) == AsName(fs, Resolved(path))
ZipName(fs, path) == AsName(fs, Fixed(path))
NameOf(fs, path) == IF fs.kind = "zip" THEN ZipName(fs, path) ELSE OsName(fs, path)

Exists(fs, path) == NameOf(fs, path) # Nothing

(* The type of an entry: "special" is fs_filetype::unknown, which is also  *)
(* the type of nothing.                                                    *)
Type(content) == IF content \in {"dir", "special"} THEN content ELSE "file"

TypeOf(fs, path) == IF Exists(fs, path) THEN Type(fs.contents[NameOf(fs, path)]) ELSE "special"

(* What follows the directory's name in the name of one of its entries has *)
(* no slash, but at the end.                                               *)
IsEntry(dir, name) ==
    /\ IsStrictPrefix(dir, name)
    /\ Find(Slash, After(name, Len(dir)), 1) >= Len(name) - Len(dir)

Entries(fs, dir) == {name \in DOMAIN fs.contents : IsEntry(dir, name)}

ShortName(dir, name) ==
    LET short == After(name, Len(dir)) IN IF Last(short) = Slash THEN Front(short) ELSE short

(* get_files throws for what is no directory; osfilesystem, which counts   *)
(* the entries of whatever is not a file, for an entry that is neither.    *)
Listable(fs, dir) ==
    /\ TypeOf(fs, dir) = "dir"
    /\ fs.kind = "os" => \A e \in Entries(fs, dir) : fs.contents[e] # "special"

GetFiles(fs, dir) == {ShortName(dir, e) : e \in Entries(fs, dir)}

=============================================================================
