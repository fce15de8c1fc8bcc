----------------------------- MODULE MCVerifier -----------------------------
(* Small instances of Verifier for TLC. *)
EXTENDS Verifier, TLC

\* Forms about one contract; file names are kept to two bases, of which 1
\* begins with a letter, and in FormBases -1 with a dot, and 2 is too long.
FormBases == -1 .. 2

File(b, e, d) == [name |-> [base |-> b, ext |-> e], data |-> d]
Form(v, cmd, pkg, files) ==
  [contract |-> "c1", version |-> v, command |-> cmd, package |-> pkg,
   parts |-> files]

\* The same Python file name with a long and with a short program.
BoaLong  == Form("neo3-boa 0.11.3", "", "", << File(1, ".py", <<"a", "a">>) >>)
BoaShort == Form("neo3-boa 0.11.3", "", "", << File(1, ".py", <<"b">>) >>)
CSharp   == Form("Neo.Compiler.CSharp 3.4.0", "nccs", "",
                 << File(1, ".cs", <<"a">>), File(1, ".csproj", <<"b">>) >>)
CSharpNoCommand == [CSharp EXCEPT !.command = "dotnet build"]
Unknown  == [BoaShort EXCEPT !.version = "neo3-boa"]
NotInScript == [BoaShort EXCEPT !.version = "neo3-boa 0.11.4"]
Boa070   == [BoaShort EXCEPT !.version = "neo3-boa 0.7.0"]
JavaLong == Form("neow3j", "", "p",
                 << File(0, ".gradle", <<>>), File(1, ".java", <<"a", "a">>) >>)
JavaShort == Form("neow3j", "", "p",
                 << File(0, ".gradle", <<>>), File(1, ".java", <<"b">>) >>)
JavaOther == Form("neow3j", "", "p",
                 << File(0, ".gradle", <<>>), File(0, ".java", <<"b">>) >>)
JavaNoPackage == [JavaShort EXCEPT !.package = ""]
JavaNothing == Form("neow3j", "", "", << File(0, ".gradle", <<>>) >>)
GoProgram == Form("neo-go", "", "", << File(1, ".go", <<"a">>) >>)
\* A neow3j program, and the file that macOS archives have beside it.
JavaDotLast  == [JavaShort EXCEPT !.parts = Append(@, File(-1, ".java", <<"b">>))]
JavaLongName == Form("neow3j", "", "p",
                 << File(0, ".gradle", <<>>), File(2, ".java", <<"b">>) >>)
CSharpBin    == [CSharp EXCEPT !.parts = Append(@, File(0, "", <<"b">>))]
BadNef   == Form("neo3-boa 0.11.3", "", "",
                 << File(1, ".py", <<"b">>), File(0, ".nef", Garbage) >>)

\* The script that the compiler named by the form makes of its program.
Intended(u) ==
  LET parts == { u.parts[i] : i \in 1 .. Len(u.parts) } IN
  Script(<<u.version, IF u.version \in CSharpVersions THEN u.command ELSE "">>,
         { <<p.name, p.data>> : p \in
             { q \in parts : q.name.ext \notin {".nef"} } })

\* A project folder sent with an old build in it.
StaleNef ==
  Form("neo3-boa 0.11.3", "", "",
       << File(1, ".py", <<"b">>), File(0, ".nef", Intended(BoaLong)) >>)

FaultsUploads == { BoaLong, [BoaShort EXCEPT !.contract = "C1"] }
SecondUploads == { BoaLong, BoaShort }
SpacedUploads == { BoaLong, BoaShort, CSharp, CSharpNoCommand, Unknown }
JavaUploads   == { JavaLong, JavaShort, JavaOther }
SerialUploads == JavaUploads \cup { BoaLong }
ProgressUploads == { BoaLong, JavaShort }
FormUploads   ==
  { BoaShort, CSharp, CSharpNoCommand, Unknown, NotInScript, JavaShort,
    Boa070, JavaNoPackage, JavaNothing, JavaDotLast, JavaLongName, CSharpBin,
    GoProgram, BadNef }
StaleUploads  == { StaleNef }
BoaUploads    == { BoaLong }

FaultsScripts == { Intended(BoaLong), Intended(BoaShort) }
SerialScripts == { Intended(BoaLong), Intended(JavaLong) }
SpacedScripts == { Intended(BoaLong), Intended(CSharp) }
JavaScripts   == { Intended(JavaLong), Intended(JavaShort) }
ProgressScripts == { Intended(BoaLong) }
FormScripts   ==
  { Intended(u) : u \in { BoaShort, CSharp, JavaShort, GoProgram } }
BoaScripts    == { Intended(BoaLong) }

\* Every contract is always named the same way, or in two ways.
OneSpelling  == [c \in Spellings |-> c]
SameContract == [c \in Spellings |-> "c1"]

Symmetry == Permutations(Requests)
=============================================================================
