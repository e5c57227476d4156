---------------------------- MODULE MCBuildMatrix ----------------------------
(* Small instances of BuildMatrix: a C++ option, a Rust option and, from   *)
(* before the builders asked for "all", a CMake option; C, C++ and Rust    *)
(* repositories.  "make" is a substring of "cmake".                        *)
EXTENDS BuildMatrix

CONSTANTS cpp, rust, cmake, ua, ub, uc

MCSystems    == {"all", "make", "cmake"}
MCWithin     == {<<s, s>> : s \in MCSystems} \union {<<"make", "cmake">>}
MCLanguages  == {"c", "c++", "rust"}
MCCanon      == [l \in MCLanguages |-> IF l = "c" THEN "c++" ELSE l]
MCOptSystem  == [c \in Configs |-> IF c = cmake THEN "cmake" ELSE "all"]
MCOptLang    == [c \in Configs |-> IF c = rust THEN "rust" ELSE "c++"]
MCRepoSystem == [r \in Urls |-> IF r = ua THEN "make" ELSE "cmake"]
MCRepoLang   == [r \in Urls |-> CASE r = ua -> "c" [] r = ub -> "c++" [] OTHER -> "rust"]
MCBundles    == {<<ua, ub>>, <<uc, ua>>}
=============================================================================
