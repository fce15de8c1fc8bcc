-------------------------- MODULE ToolchainProofs --------------------------
(***************************************************************************)
(* Proofs about the three tables that decide which compiler executes, and  *)
(* about the families of versions.                                         *)
(***************************************************************************)
EXTENDS Toolchain, TLAPS

\* The rows of the tables are pairs.
LEMMA TablesArePairs ==
  /\ \A e \in BoaTable   : \E a, b : e = <<a, b>>
  /\ \A e \in PythonExec : \E a, b : e = <<a, b>>
  /\ \A e \in Venvs      : \E a, b : e = <<a, b>>
<1>1. \A e \in BoaTable : \E a, b : e = <<a, b>>
  BY Zenon DEF BoaTable
<1>2. \A e \in PythonExec : \E a, b : e = <<a, b>>
  BY Zenon DEF PythonExec
<1>3. \A e \in Venvs : \E a, b : e = <<a, b>>
  BY Zenon DEF Venvs
<1> QED BY <1>1, <1>2, <1>3

\* The versions of execCommand's first table.
LEMMA BoaVersionRow ==
  ASSUME NEW v \in BoaVersions
  PROVE  \E b : <<v, b>> \in BoaTable
<1>1. PICK e \in BoaTable : v = e[1]
  BY DEF BoaVersions
<1>2. PICK a, b : e = <<a, b>>
  BY TablesArePairs
<1>3. e[1] = a
  BY <1>2
<1> QED BY <1>1, <1>2, <1>3

\* The branches of execCommand exclude each other.
LEMMA OtherVersions ==
  /\ "neo-go" \notin BoaVersions /\ "neow3j" \notin BoaVersions
  /\ "neo-go" \notin CSharpVersions /\ "neow3j" \notin CSharpVersions
<1>1. \A b : <<"neo-go", b>> \notin BoaTable /\ <<"neow3j", b>> \notin BoaTable
  BY Zenon DEF BoaTable
<1>2. "neo-go" \notin CSharpVersions /\ "neow3j" \notin CSharpVersions
  BY Zenon DEF CSharpVersions
<1> QED BY <1>1, <1>2, BoaVersionRow

\* execCommand's branch, and back to the version.
LEMMA FamilyOfVersion ==
  /\ Family("neo-go") = "go" /\ Family("neow3j") = "java"
  /\ \A v : /\ Family(v) = "go" => v = "neo-go"
            /\ Family(v) = "java" => v = "neow3j"
            /\ Family(v) = "boa" => v \in BoaVersions
            /\ Family(v) = "csharp" => v \in CSharpVersions
BY OtherVersions DEF Family

\* The argument of pythonExec.sh and the environment it activates.
LEMMA BoaRoutes ==
  \A v, b, e : <<v, b>> \in BoaTable /\ <<b, e>> \in PythonExec =>
    <<v, e>> \in
      { <<"neo3-boa 0.11.3", "venv113">>, <<"neo3-boa 0.11.2", "venv112">>,
        <<"neo3-boa 0.11.1", "venv111">>, <<"neo3-boa 0.11.0", "venv110">>,
        <<"neo3-boa 0.10.1", "venv101">>, <<"neo3-boa 0.10.0", "venv100">>,
        <<"neo3-boa 0.9.0",  "venv090">>, <<"neo3-boa 0.8.3",  "venv083">>,
        <<"neo3-boa 0.8.2",  "venv082">>, <<"neo3-boa 0.8.1",  "venv081">>,
        <<"neo3-boa 0.8.0",  "venv080">>, <<"neo3-boa 0.7.0",  "venv083">> }
BY ZenonT(120) DEF BoaTable, PythonExec

\* Through the three tables every neo3-boa version comes to its own compiler,
\* or to none, but for 0.7.0.
LEMMA BoaCompiler ==
  \A v, b, e, c :
    <<v, b>> \in BoaTable /\ <<b, e>> \in PythonExec /\ <<e, c>> \in Venvs =>
      \/ c = v /\ v # "neo3-boa 0.7.0"
      \/ v = "neo3-boa 0.7.0" /\ c = "neo3-boa 0.8.3"
<1>1. \A v, e, c :
        /\ <<v, e>> \in
             { <<"neo3-boa 0.11.3", "venv113">>, <<"neo3-boa 0.11.2", "venv112">>,
               <<"neo3-boa 0.11.1", "venv111">>, <<"neo3-boa 0.11.0", "venv110">>,
               <<"neo3-boa 0.10.1", "venv101">>, <<"neo3-boa 0.10.0", "venv100">>,
               <<"neo3-boa 0.9.0",  "venv090">>, <<"neo3-boa 0.8.3",  "venv083">>,
               <<"neo3-boa 0.8.2",  "venv082">>, <<"neo3-boa 0.8.1",  "venv081">>,
               <<"neo3-boa 0.8.0",  "venv080">>, <<"neo3-boa 0.7.0",  "venv083">> }
        /\ <<e, c>> \in Venvs
        => \/ c = v /\ v # "neo3-boa 0.7.0"
           \/ v = "neo3-boa 0.7.0" /\ c = "neo3-boa 0.8.3"
  BY ZenonT(120) DEF Venvs
<1> QED BY <1>1, BoaRoutes, Zenon

\* RoutedTo of module Verifier, which this module does not see.
Routed(v, c) ==
  \/ c = v /\ v # "neo3-boa 0.7.0"
  \/ v = "neo3-boa 0.7.0" /\ c = "neo3-boa 0.8.3"

\* An activated environment comes from one row of each table.
LEMMA ActivatedRow ==
  ASSUME NEW v, NEW x \in Activated(v)
  PROVE  \E b, e, c : /\ x = <<e, c>> /\ x \in Venvs
                      /\ <<v, b>> \in BoaTable /\ <<b, e>> \in PythonExec
<1>1. PICK y \in BoaTable, p \in PythonExec :
        x \in Venvs /\ y[1] = v /\ p[1] = y[2] /\ x[1] = p[2]
  BY DEF Activated
<1>2. PICK y1, y2 : y = <<y1, y2>>
  BY TablesArePairs
<1>3. PICK p1, p2 : p = <<p1, p2>>
  BY TablesArePairs
<1>4. PICK x1, x2 : x = <<x1, x2>>
  BY <1>1, TablesArePairs
<1> QED BY <1>1, <1>2, <1>3, <1>4

\* Whatever the Version and CompileCommand fields say: if a compiler executes,
\* it is the one the version names, but for neo3-boa 0.7.0.
LEMMA RunsAsRouted ==
  ASSUME NEW v, NEW cmd, NEW x \in Runs(v, cmd)
  PROVE  Routed(v, x[1])
<1>1. ASSUME NEW y \in Activated(v), x = <<y[2], "">> PROVE Routed(v, x[1])
  <2>1. PICK b, e, c : /\ y = <<e, c>> /\ y \in Venvs
                       /\ <<v, b>> \in BoaTable /\ <<b, e>> \in PythonExec
    BY ActivatedRow
  <2>2. Routed(v, c)
    BY <2>1, BoaCompiler, Zenon DEF Routed
  <2> QED BY <1>1, <2>1, <2>2
<1>2. ASSUME v \in CSharpVersions \cup {"neow3j", "neo-go"}, x[1] = v
      PROVE  Routed(v, x[1])
  <2>1. v # "neo3-boa 0.7.0"
    BY <1>2, Zenon DEF CSharpVersions
  <2> QED BY <1>2, <2>1, Zenon DEF Routed
<1>3. \/ \E y \in Activated(v) : x = <<y[2], "">>
      \/ v \in CSharpVersions \cup {"neow3j", "neo-go"} /\ x[1] = v
  BY DEF Runs
<1> QED BY <1>1, <1>2, <1>3

\* The program files of a version's family are recorded as source code, in
\* every branch of multipleFile's filter.
LEMMA ProgramsAreRecorded ==
  ASSUME NEW v, NEW x \in SourceExts(Family(v))
  PROVE  IsRecorded(v, x) /\ x # ".nef"
<1>1. /\ SourceExts("java") = {".java"} /\ SourceExts("go") = {".go"}
      /\ SourceExts("boa") = {".py"} /\ SourceExts("csharp") = {".cs", ".csproj"}
      /\ SourceExts("none") = {}
  BY Zenon DEF SourceExts
<1>2. x # ".nef" /\ Family(v) # "none"
  <2>1. Family(v) \in {"boa", "csharp", "java", "go", "none"}
    BY DEF Family
  <2> QED BY <1>1, <2>1
<1>3. v = "neo3-boa" => Family(v) = "boa"
  <2>1. "neo3-boa" \notin CSharpVersions
    BY Zenon DEF CSharpVersions
  <2> QED BY <1>2, <2>1 DEF Family
<1>4. /\ v = "neo3-boa" => x = ".py"
      /\ v = "neow3j" => x = ".java"
      /\ v = "neo-go" => x = ".go"
  BY <1>1, <1>3, FamilyOfVersion
<1> QED BY <1>2, <1>4 DEF IsRecorded
=============================================================================
