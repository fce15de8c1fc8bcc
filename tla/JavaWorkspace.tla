--------------------------- MODULE JavaWorkspace ---------------------------
(***************************************************************************)
(* javacontractgradle/: the one Gradle project in which every neow3j       *)
(* upload is compiled.  javaExec.sh empties it, copies the upload into it  *)
(* and runs gradlew; the handler then looks for the result in              *)
(* build/neow3j/.  Each operation below is one command of the script; the  *)
(* scripts of concurrent requests interleave, since nothing locks the      *)
(* project.                                                                *)
(***************************************************************************)
EXTENDS Workdir

CONSTANT Packages    \* values of the JavaPackage field; "" when it is absent

VARIABLES
  buildGradle,       \* javacontractgradle/build.gradle, or None
  packages,          \* package folders that exist under src/main/java
  javaSrc,           \* javaSrc[p]: the .java files in package folder p
  built              \* .nef files in build/neow3j

javaVars == <<buildGradle, packages, javaSrc, built>>

GradleName == [base |-> 0, ext |-> ".gradle"]

JavaTypeOK ==
  /\ buildGradle \in Content \cup {None}
  /\ packages \subseteq Packages
  /\ javaSrc \in [Packages -> Trees]
  /\ built \in [Bases -> Scripts \cup {None}]

\* The project as it is in the repository, and so in a new container:
\* build.gradle and .nef files of earlier compilations are there.  (So is a
\* sample contract, which every script deletes before it compiles.)
ShippedScript == Script(<<"neow3j", "">>, {})
ShippedBuilt  == [b \in Bases |-> IF b = 0 THEN ShippedScript ELSE None]

JavaInit ==
  /\ buildGradle = <<>>
  /\ packages = {}
  /\ javaSrc = [p \in Packages |-> {}]
  /\ built = ShippedBuilt

JavaRebuilt ==
  /\ buildGradle' = <<>>
  /\ packages' = {}
  /\ javaSrc' = [p \in Packages |-> {}]
  /\ built' = ShippedBuilt

-----------------------------------------------------------------------------
(* The commands of "javaExec.sh pkg folder".  When JavaPackage is empty    *)
(* the shell sees one argument only: the folder arrives as $1, $2 is       *)
(* empty, and both cp commands find nothing to copy.                       *)

CopiedFrom(pkg, f, exts) == IF pkg = "" THEN {} ELSE TreeOf(f, exts)

\* cd build/neow3j; rm -f *
LeaveBuilt == UNCHANGED javaVars
CleanBuilt ==
  /\ built' = [b \in Bases |-> None]
  /\ UNCHANGED <<buildGradle, packages, javaSrc>>

\* rm -f build.gradle
RemoveGradle ==
  /\ buildGradle' = None
  /\ UNCHANGED <<packages, javaSrc, built>>

\* cp $2/build.gradle javacontractgradle/
CopyGradle(pkg, f) ==
  /\ buildGradle' =
       IF pkg = "" \/ dirs[f] = None \/ dirs[f].src[GradleName] = None
       THEN buildGradle ELSE dirs[f].src[GradleName]
  /\ UNCHANGED <<packages, javaSrc, built>>

\* cd src/main/java; rm -rf *
WipeSources ==
  /\ packages' = {}
  /\ javaSrc' = [p \in Packages |-> {}]
  /\ UNCHANGED <<buildGradle, built>>

\* mkdir -p $Package
MakePackage(pkg) ==
  /\ packages' = packages \cup ({pkg} \ {""})
  /\ UNCHANGED <<buildGradle, javaSrc, built>>

\* cp $2/*.java src/main/java/$Package/, which fails if the folder is gone
CopySources(pkg, f) ==
  LET new == CopiedFrom(pkg, f, {".java"}) IN
  /\ javaSrc' = IF pkg \notin packages THEN javaSrc
                ELSE [javaSrc EXCEPT ![pkg] =
                        { e \in @ : \A x \in new : x[1] # e[1] } \cup new]
  /\ UNCHANGED <<buildGradle, packages, built>>

\* What gradlew neow3jCompile reads: build.gradle and all of src/main/java.
GradleTree ==
  (UNION { javaSrc[p] : p \in Packages }) \cup
  { <<GradleName, c>> : c \in {buildGradle} \ {None} }

GradleCanRun == buildGradle # None /\ \E p \in Packages : javaSrc[p] # {}

\* gradlew writes build/neow3j/base.nef
WriteBuilt(base, script) ==
  /\ built' = [built EXCEPT ![base] = script]
  /\ UNCHANGED <<buildGradle, packages, javaSrc>>
=============================================================================
