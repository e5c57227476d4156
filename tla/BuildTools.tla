------------------------------ MODULE BuildTools ------------------------------
(***************************************************************************)
(* How a C builder recognises a project and chooses its command.  A file   *)
(* name is given by the keyword its lower-case form contains (or by its    *)
(* source suffix): BUCK and WORKSPACE, which are upper-case keywords, can  *)
(* never be contained.                                                     *)
(***************************************************************************)
EXTENDS Naturals, Sequences, SequencesExt

BuildSystems ==
    [make       |-> {"makefile", "makefile.in", "makefile.am"},
     cmake      |-> {"cmakelists.txt"},
     sln        |-> {".sln"},
     autoconf   |-> {"configure", "configure.ac", "configure.in"},
     bootstrap  |-> {"bootstrap", "bootstrap.sh", "autogen.sh"},
     meson      |-> {"meson.build"},
     ninja      |-> {"build.ninja", "ninja"},
     bazel      |-> {"build.bazel", "workspace"},
     buck       |-> {},
     scons      |-> {"sconstruct", "sconscript"},
     qmake      |-> {".pro"},
     premake    |-> {"premake4.lua", "premake5.lua"},
     xcodebuild |-> {"project.pbxproj"},
     cargo      |-> {"cargo.toml"},
     gradle     |-> {"build.gradle", "build.gradle.kts"},
     maven      |-> {"pom.xml"},
     python     |-> {"setup.py", "pyproject.toml", "requirements.txt"}]

PriorityOrder ==
    <<"cmake", "make", "scons", "meson", "ninja", "bootstrap", "autoconf", "sln", "bazel",
      "buck", "qmake", "premake", "xcodebuild", "cargo", "gradle", "maven", "python">>

GetBuildSystem(files) ==
    LET detected == SelectSeq(PriorityOrder, LAMBDA tool : BuildSystems[tool] \cap files # {})
    IN IF detected # <<>> THEN Head(detected)
       ELSE IF files \cap {".c", ".cpp", ".cc", ".cxx", ".c++"} # {} THEN "c_fallback"
       ELSE IF ".py" \in files THEN "python" ELSE "others"

(* LinuxBuildStrategy.build has commands for these: its second branch asks *)
(* for "configure", a name detection never gives, and its last for a name  *)
(* that contains "make", so that a qmake or premake project is built with  *)
(* make too.  Any other project fails without a command.                   *)
HasCommand(files) ==
    GetBuildSystem(files) \in {"bootstrap", "cmake", "make", "qmake", "premake"}

-----------------------------------------------------------------------------
(* What a command may come to: its exit code is 0 or not, it leaves        *)
(* products in the tree or not, and cargo may have listed them before it   *)
(* ended.  One over its time limit is killed with its process group; its   *)
(* products stay, its output is lost.                                      *)
RunCommand == {r \in [ok : BOOLEAN, leaves : BOOLEAN, listed : BOOLEAN] : r.listed => r.leaves}

NoCommand == {[ok |-> FALSE, leaves |-> FALSE, listed |-> FALSE]}

LinuxBuild(files) == IF HasCommand(files) THEN RunCommand ELSE NoCommand

(* With a Cargo.lock, a build that fails is tried again without it, and    *)
(* only the output of the second counts.                                   *)
RustBuild(files) ==
    IF "cargo.toml" \notin files THEN NoCommand
    ELSE IF "cargo.lock" \notin files THEN RunCommand
    ELSE {r \in RunCommand : r.ok}
         \cup {[second EXCEPT !.leaves = @ \/ first.leaves] :
                  first \in {r \in RunCommand : ~r.ok}, second \in RunCommand}

(* A C build's binaries are looked for in the whole tree; a Rust build's   *)
(* are those cargo listed, or, if it listed none and succeeded, those in   *)
(* its profile's directory.                                                *)
FindBinaries(r) == r.leaves
ParseCargoArtifacts(r) == r.listed
FallbackBinaries(r) == r.ok /\ r.leaves
CargoBinaries(r) == ParseCargoArtifacts(r) \/ FallbackBinaries(r)
=============================================================================
