----------------------------- MODULE Toolchain -----------------------------
(***************************************************************************)
(* The compilers of the verification service: which Version strings the    *)
(* handler accepts, which command each one starts, which compiler that     *)
(* command really runs inside the image, and which uploaded files are      *)
(* recorded as source code.  Tables are sets of pairs, one pair per branch *)
(* of the code.                                                            *)
(***************************************************************************)

\* execCommand: Version -> argument of pythonExec.sh.
BoaTable ==
  { <<"neo3-boa 0.11.4", "boa114">>, <<"neo3-boa 0.11.3", "boa113">>,
    <<"neo3-boa 0.11.2", "boa112">>, <<"neo3-boa 0.11.1", "boa111">>,
    <<"neo3-boa 0.11.0", "boa110">>, <<"neo3-boa 0.10.1", "boa101">>,
    <<"neo3-boa 0.10.0", "boa100">>, <<"neo3-boa 0.9.0",  "boa090">>,
    <<"neo3-boa 0.8.3",  "boa083">>, <<"neo3-boa 0.8.2",  "boa082">>,
    <<"neo3-boa 0.8.1",  "boa081">>, <<"neo3-boa 0.8.0",  "boa080">>,
    <<"neo3-boa 0.7.0",  "boa070">>, <<"neo3-boa 0.3.0",  "boa030">>,
    <<"neo3-boa 0.0.3",  "boa003">>, <<"neo3-boa 0.0.0",  "boa000">> }

\* A branch of the script that activates its neighbour's environment.
PythonExecSlip ==
  { <<"boa113", "venv112">>, <<"boa112", "venv112">>, <<"boa083", "venv083">> }

\* pythonExec.sh: argument -> virtual environment it activates.
PythonExec ==
  { <<"boa113", "venv113">>, <<"boa112", "venv112">>, <<"boa111", "venv111">>,
    <<"boa110", "venv110">>, <<"boa101", "venv101">>, <<"boa100", "venv100">>,
    <<"boa090", "venv090">>, <<"boa083", "venv083">>, <<"boa082", "venv082">>,
    <<"boa081", "venv081">>, <<"boa080", "venv080">>, <<"boa071", "venv071">>,
    <<"boa070", "venv083">> }

\* Dockerfile: virtual environment -> compiler installed in it.
Venvs ==
  { <<"venv114", "neo3-boa 0.11.4">>, <<"venv113", "neo3-boa 0.11.3">>,
    <<"venv112", "neo3-boa 0.11.2">>, <<"venv111", "neo3-boa 0.11.1">>,
    <<"venv110", "neo3-boa 0.11.0">>, <<"venv101", "neo3-boa 0.10.1">>,
    <<"venv100", "neo3-boa 0.10.0">>, <<"venv090", "neo3-boa 0.9.0">>,
    <<"venv083", "neo3-boa 0.8.3">>,  <<"venv082", "neo3-boa 0.8.2">>,
    <<"venv081", "neo3-boa 0.8.1">>,  <<"venv080", "neo3-boa 0.8.0">>,
    <<"venv071", "neo3-boa 0.7.1">>,  <<"venv070", "neo3-boa 0.7.0">> }

BoaVersions == { e[1] : e \in BoaTable }

CSharpVersions ==
  { "Neo.Compiler.CSharp 3.0.0", "Neo.Compiler.CSharp 3.0.2",
    "Neo.Compiler.CSharp 3.0.3", "Neo.Compiler.CSharp 3.1.0",
    "Neo.Compiler.CSharp 3.3.0", "Neo.Compiler.CSharp 3.4.0" }

\* The two command lines the C# branches know.  With any other one, cmd
\* stays exec.Command("echo"), which starts, prints a line and succeeds.
NccsCommands == { "nccs", "nccs --no-optimize" }

Accepted == BoaVersions \cup CSharpVersions \cup { "neow3j", "neo-go" }

\* The compilers of the image.
Installed == { v[2] : v \in Venvs } \cup CSharpVersions \cup { "neow3j", "neo-go" }

Family(version) ==
  CASE version \in BoaVersions    -> "boa"
    [] version \in CSharpVersions -> "csharp"
    [] version = "neow3j"         -> "java"
    [] version = "neo-go"         -> "go"
    [] OTHER                      -> "none"

(***************************************************************************)
(* Runs(version, command) is the set (empty or a singleton) of compilers   *)
(* that execute for a form's Version and CompileCommand fields.  A         *)
(* compiler is a pair: what is installed, and its command-line options.    *)
(***************************************************************************)
Activated(version) ==
  { v \in Venvs : \E b \in BoaTable, p \in PythonExec :
                    b[1] = version /\ p[1] = b[2] /\ v[1] = p[2] }

Runs(version, command) ==
  { <<v[2], "">> : v \in Activated(version) }
  \cup ((CSharpVersions \cap {version}) \X (NccsCommands \cap {command}))
  \cup (({"neow3j", "neo-go"} \cap {version}) \X {""})

\* The file extension a compiler of the family reads its program from.
SourceExts(family) ==
  CASE family = "boa"    -> { ".py" }
    [] family = "csharp" -> { ".cs", ".csproj" }
    [] family = "java"   -> { ".java" }
    [] family = "go"     -> { ".go" }
    [] OTHER             -> {}

(***************************************************************************)
(* Which top-level files of the upload folder multipleFile inserts into    *)
(* ContractSourceCode.  The first test compares Version with "neo3-boa",   *)
(* which no accepted version equals.                                       *)
(***************************************************************************)
RecordedSlip(version, ext) ==
  CASE version = "neow3j" -> ext = ".go"
    [] OTHER              -> TRUE
IsRecorded(version, ext) ==
  CASE version = "neo3-boa" -> ext = ".py"
    [] version = "neow3j"   -> ext = ".java"
    [] version = "neo-go"   -> ext = ".go"
    [] OTHER                -> TRUE
=============================================================================
