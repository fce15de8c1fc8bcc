------------------------------ MODULE Workdir ------------------------------
(***************************************************************************)
(* The server's working directory: one upload folder per clock second      *)
(* (createDateDir names it time.Now().Format("20060102150405")), and the   *)
(* folders renamed to a contract hash after a successful verification.     *)
(*                                                                         *)
(* A file name is a base and an extension; bases are integers in the order *)
(* in which ReadDir sorts names, and those below 0 begin with a dot.       *)
(* Names with a path separator, which multipleFile joins to the folder as  *)
(* they are, are not modelled: every file lies at the top of its folder.   *)
(* A text file is a sequence of blocks, which is what a write without      *)
(* O_TRUNC can leave half replaced.  A .nef file is the script             *)
(* nef.FileFromBytes reads from its head (trailing bytes are ignored), or  *)
(* Garbage when it does not parse; it stands for the .manifest.json and    *)
(* .nefdbgnfo files written beside it as well.                             *)
(***************************************************************************)
EXTENDS Integers, Sequences, Toolchain

CONSTANTS
  Bases,       \* base names; 0 is the one programs give their files
               \* (out.nef, build.gradle, the folder bin)
  LongBases,   \* bases longer than the file system takes
  Text,        \* blocks of source text
  Spellings,   \* values of the Contract field: contract hashes as typed
  MaxNow,      \* bound: the clock stops here
  None,        \* absent file, folder or value
  Garbage      \* the content of a .nef file that does not parse

ASSUME BasesAssumption ==
  /\ Bases \subseteq Int /\ 0 \in Bases
  /\ LongBases \subseteq Bases /\ 0 \notin LongBases
ASSUME MaxNowAssumption == MaxNow \in Nat

VARIABLES
  now,         \* the clock, in seconds
  dirs,        \* dirs[s]: the upload folder named after second s, or None
  kept         \* hashes a folder has been renamed to

workdirVars == <<now, dirs, kept>>

Seconds   == 0 .. MaxNow
TextExts  == { "", ".cs", ".csproj", ".go", ".gradle", ".java", ".py" }
TextNames == [base : Bases, ext : TextExts]
NefNames  == [base : Bases, ext : { ".nef" }]
Content   == Seq(Text)

\* A file of this name stands where nccs makes its folder.
BinName == [base |-> 0, ext |-> ""]

\* What a compiler finds by its extension: the shell's * and the go command
\* pass over names that begin with a dot, MSBuild does not.
Visible(name) == name.base >= 0 \/ name.ext \in { ".cs", ".csproj" }

\* Source trees are sets of <<name, content>>; a script is determined by
\* the compiler and the sources it has read.
Trees     == SUBSET (TextNames \X Content)
Compilers == Installed \X (NccsCommands \cup {""})
Scripts   == [by : Compilers, of : Trees]
NefFiles  == [Bases -> Scripts \cup {Garbage, None}]

Script(compiler, tree) == [by |-> compiler, of |-> tree]

Folders ==
  [src : [TextNames -> Content \cup {None}],   \* text files at the top
   nef : NefFiles,                             \* .nef files at the top
   bin : NefFiles]                             \* .nef files in bin/sc/

NoNef == [b \in Bases |-> None]
EmptyFolder ==
  [src |-> [n \in TextNames |-> None], nef |-> NoNef, bin |-> NoNef]

\* A folder after a file has been written into it.
PutText(d, name, data) == [d EXCEPT !.src = [d.src EXCEPT ![name] = data]]
PutNef(d, base, data)  == [d EXCEPT !.nef = [d.nef EXCEPT ![base] = data]]
PutBin(d, base, data)  == [d EXCEPT !.bin = [d.bin EXCEPT ![base] = data]]

\* The text files of a folder that a compiler sees, for given extensions.
TreeOf(f, exts) ==
  { <<n, dirs[f].src[n]>> : n \in { m \in TextNames :
      /\ m.ext \in exts /\ Visible(m)
      /\ dirs[f] # None /\ dirs[f].src[m] # None } }

\* A file stands where bin/ should be.
BinIsFile(f) == dirs[f] # None /\ dirs[f].src[BinName] # None

\* GetNameBySuffix(path, ".nef"): the first match, as a set (empty if there
\* is none).
FirstNef(files) ==
  { b \in Bases : files[b] # None
                  /\ \A c \in Bases : files[c] # None => b <= c }

(***************************************************************************)
(* O_WRONLY|O_CREATE: the old file keeps what lies past the new content.   *)
(***************************************************************************)
Overwrite(old, new) ==
  IF old = None THEN new
  ELSE new \o SubSeq(old, Len(new) + 1, Len(old))

-----------------------------------------------------------------------------
(* Operations on the folder of second f.                                   *)

\* createDateDir: Stat, and Mkdir only if it is not there yet.
CreateDateDir(f) ==
  dirs' = IF dirs[f] = None THEN [dirs EXCEPT ![f] = EmptyFolder] ELSE dirs

\* OpenFile fails when the folder is gone, when the name is too long, and
\* when there is a folder of that name.
CanCreate(f, name) ==
  /\ dirs[f] # None
  /\ name.base \notin LongBases
  /\ name = BinName => dirs[f].bin = NoNef

\* OpenFile and io.Copy of one part.  Both errors are dropped, so a part
\* that cannot be created is lost without notice.
SaveFile(f, part) ==
  dirs' =
    IF ~CanCreate(f, part.name) THEN dirs
    ELSE [dirs EXCEPT ![f] =
            IF part.name.ext = ".nef"
            THEN PutNef(@, part.name.base, part.data)
            ELSE PutText(@, part.name, Overwrite(@.src[part.name], part.data))]

\* A compiler of the given family writes base.nef: nccs into bin/sc/, which
\* it cannot make if bin is a file, the others at the top.
WriteNef(f, family, base, script) ==
  dirs' =
    IF dirs[f] = None \/ (family = "csharp" /\ BinIsFile(f)) THEN dirs
    ELSE [dirs EXCEPT ![f] = IF family = "csharp"
                             THEN PutBin(@, base, script)
                             ELSE PutNef(@, base, script)]

\* os.RemoveAll(pathFile)
KeepFolder(f) == dirs' = dirs
RemoveAll(f) == dirs' = [dirs EXCEPT ![f] = None]

\* os.Rename(pathFile, hash): fails, silently, when the folder is gone or
\* when the hash already names a (non-empty) folder.
CanRename(f, hash) == dirs[f] # None /\ hash \notin kept
RenameOrWait(f, hash) ==
  /\ CanRename(f, hash)
  /\ dirs' = [dirs EXCEPT ![f] = None] /\ kept' = kept \cup {hash}
Rename(f, hash) ==
  IF CanRename(f, hash)
  THEN dirs' = [dirs EXCEPT ![f] = None] /\ kept' = kept \cup {hash}
  ELSE UNCHANGED <<dirs, kept>>

Tick ==
  /\ now < MaxNow
  /\ now' = now + 1

WorkdirTypeOK ==
  /\ now \in Seconds
  /\ dirs \in [Seconds -> Folders \cup {None}]
  /\ kept \subseteq Spellings
=============================================================================
