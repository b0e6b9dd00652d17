----------------------------- MODULE ThemeFiles -----------------------------
(***************************************************************************)
(* Themes and the images of themes (src/src/themes, src/src/common/files).  *)
(* An image is a row of File and a file on the disk: a theme's handler      *)
(* writes both, and the theme, one after the other.  Nothing puts back what *)
(* a request that stopped half-way has done.                                *)
(***************************************************************************)
EXTENDS Requests

CONSTANTS
  ThemeIds, FileIds,
  Paths   \* the names uploads get: a millisecond and the client's name, which
          \* are taken not to be given twice

ASSUME ThemeAssumption ==
  ThemeIds \subseteq Nat /\ ThemeIds # {} /\ FileIds \subseteq Nat

VARIABLES
  theme, file,  \* the tables
  disk,         \* paths of the files in the upload folder
  given         \* paths given so far

themeVars == <<theme, file, disk, given>>

ThemeRow == [st : {"free", "live", "gone"}, image : Paths \cup {None}]

\* A soft-deleted row keeps its place: its st is "gone".
FileRow == [st : {"free", "live", "gone"}, theme : ThemeIds,
            path : Paths \cup {None}]

\* findByContext: the rows of a theme that are not deleted.
FilesOf(t) == {f \in Live(file) : file[f].theme = t}

NewFile(t, path) == [st |-> "live", theme |-> t, path |-> path]

SaveTheme(c) ==
  \E image \in BOOLEAN : Begin(c, Doing("insertTheme", None, image))

UpdateImage(c) ==
  \E t \in Live(theme) :
    Begin(c, Doing(IF theme[t].image = None THEN "upload" ELSE "listFiles",
                   t, "upload"))

\* The files are looked for before the theme is.
DeleteTheme(c) ==
  \E t \in ThemeIds :
    /\ theme[t].st # "free"
    /\ Begin(c, Doing("listFiles", t, "deleteTheme"))

InsertTheme(c) ==
  LET r == req[c]
      t == CHOOSE x \in Free(theme) : \A y \in Free(theme) : x <= y
  IN
  /\ r.op = "insertTheme" /\ Free(theme) # {}
  /\ theme' = Inserted(theme, [st |-> "live", image |-> None])
  /\ IF r.row THEN Proceed(c, Doing("upload", t, "upload")) ELSE Answer(c)
  /\ UNCHANGED <<file, disk, given>>

-----------------------------------------------------------------------------
(* uploadFile, and the image of the theme.                                 *)

UploadToDisk(c) ==
  LET r == req[c] IN
  /\ r.op = "upload"
  /\ \E path \in Paths \ given :
       /\ disk' = disk \cup {path}
       /\ given' = given \cup {path}
       /\ Proceed(c, Doing("insertFile", r.id, path))
  /\ UNCHANGED <<theme, file>>

InsertFile(c) ==
  LET r == req[c] IN
  /\ r.op = "insertFile" /\ Free(file) # {}
  /\ file' = Inserted(file, NewFile(r.id, r.row))
  /\ Proceed(c, [r EXCEPT !.op = "setImage"])
  /\ UNCHANGED <<theme, disk, given>>

SetImage(c) ==
  LET r == req[c] IN
  /\ r.op = "setImage" /\ r.id \in Live(theme)
  /\ theme' = [theme EXCEPT ![r.id].image = r.row]
  /\ Answer(c)
  /\ UNCHANGED <<file, disk, given>>

-----------------------------------------------------------------------------
(* deleteFilesByContext.                                                   *)

ListFiles(c) ==
  LET r == req[c] IN
  /\ r.op = "listFiles"
  /\ req' = [req EXCEPT ![c] =
       Doing("unlink", r.id, [paths |-> {file[f].path : f \in FilesOf(r.id)},
                              then |-> r.row])]
  /\ UNCHANGED <<themeVars, overtaken, left>>

\* All at once; when one of them is not there the others are gone all the
\* same, and the request ends with that error.
UnlinkFiles(c) ==
  LET r == req[c] IN
  /\ r.op = "unlink"
  /\ disk' = disk \ r.row.paths
  /\ IF r.row.paths \subseteq disk
     THEN Proceed(c, Doing("softDelete", r.id, r.row.then))
     ELSE Answer(c)
  /\ UNCHANGED <<theme, file, given>>

\* A slip: the rows are left as they are.
KeepFileRows(c) ==
  LET r == req[c] IN
  /\ r.op = "softDelete"
  /\ Proceed(c, [r EXCEPT !.op = r.row])
  /\ UNCHANGED themeVars

\* deleteByContext: whatever rows the theme has now.
SoftDeleteFiles(c) ==
  LET r == req[c] IN
  /\ r.op = "softDelete"
  /\ file' = [f \in FileIds |->
       IF f \in FilesOf(r.id) THEN [file[f] EXCEPT !.st = "gone"] ELSE file[f]]
  /\ Proceed(c, [r EXCEPT !.op = r.row])
  /\ UNCHANGED <<theme, disk, given>>

DeleteThemeRow(c) ==
  LET r == req[c] IN
  /\ r.op = "deleteTheme" /\ r.id \in Live(theme)
  /\ theme' = Deleted(theme, r.id)
  /\ Answer(c)
  /\ UNCHANGED <<file, disk, given>>

ThemeRequest(c) ==
  /\ Ready(c)
  /\ SaveTheme(c) \/ UpdateImage(c) \/ DeleteTheme(c)
  /\ UNCHANGED themeVars

ThemeStep(c) ==
  \/ InsertTheme(c) \/ UploadToDisk(c) \/ InsertFile(c) \/ SetImage(c)
  \/ ListFiles(c) \/ UnlinkFiles(c) \/ SoftDeleteFiles(c) \/ DeleteThemeRow(c)

AbandonTheme(c) == Abandon(c) /\ UNCHANGED themeVars

ThemesNext ==
  \E c \in Clients : ThemeRequest(c) \/ ThemeStep(c) \/ AbandonTheme(c)

ThemesInit ==
  /\ theme = [t \in ThemeIds |-> [st |-> "free", image |-> None]]
  /\ file = [f \in FileIds |->
       [st |-> "free", theme |-> CHOOSE t \in ThemeIds : TRUE, path |-> None]]
  /\ disk = {}
  /\ given = {}

-----------------------------------------------------------------------------
(* Properties.                                                             *)

\* Every row is made of the values its columns can hold.
ThemesTyped ==
  /\ theme \in [ThemeIds -> ThemeRow]
  /\ file \in [FileIds -> FileRow]
  /\ disk \subseteq given /\ given \subseteq Paths

\* A row of File is marked deleted when its file is off the disk, and a theme
\* is deleted when no row of File is left to it ("cascade delete files"), unless
\* the request that does it was overtaken.
DeletionTakesTheFiles ==
  [][/\ \A f \in Live(file) :
          file'[f].st = "gone" =>
            \/ file[f].path \notin disk
            \/ \E c \in overtaken : req'[c] # req[c]
     /\ \A t \in Live(theme) :
          theme'[t].st = "gone" =>
            \/ FilesOf(t) = {}
            \/ \E c \in overtaken : Answers(c)]_<<theme, file, req>>
=============================================================================
