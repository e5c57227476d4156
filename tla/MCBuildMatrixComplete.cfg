SPECIFICATION Spec
CONSTANTS
    cpp = cpp
    rust = rust
    cmake = cmake
    ua = ua
    ub = ub
    uc = uc
    NoOpt = NoOpt
    NoUrl = NoUrl
    Configs = {cpp, rust, cmake}
    Legacy = {cmake}
    Urls = {ua, ub, uc}
    Systems <- MCSystems
    All = "all"
    Within <- MCWithin
    Languages <- MCLanguages
    Canon <- MCCanon
    OptSystem <- MCOptSystem
    OptLanguage <- MCOptLang
    RepoSystem <- MCRepoSystem
    RepoLanguage <- MCRepoLang
    Bundles <- MCBundles
    MaxBundles = 2
    MaxFaults = 0
INVARIANTS
    MatrixComplete
CHECK_DEADLOCK FALSE
