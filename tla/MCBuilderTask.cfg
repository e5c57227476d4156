CONSTANTS
    Tasks = {"t1", "t2", "t3"}
    Repos = {"r1", "r2"}
    Opts = {"gcc_O0", "clang_O0"}
    Builders = {"b1", "b2"}
    RepoOf <- MCRepoOf
    OptOf <- MCOptOf
    Serves <- MCServes
    Strategy <- MCStrategy
    Requested = {"MIR", "GIMPLE"}
    RepoScope = TRUE
    Crate <- MCCrate
    FilesOf <- MCFilesOf
    MaxHead <- MCMaxHead
    MaxFaults = 1
    None = None
    Binaries = 2
    DwarfTimeout = 2
    PhaseTimeout = 3
    ReapTimeout = 1
    RustfiltTimeout = 1
    Needs <- MCNeeds
    Programs <- MCPrograms
    Jobs = {1, 2, 3}
    SizeLimit = 5
    Headers <- MCHeaders
SPECIFICATION Spec
CONSTRAINT PushOrSecondRepository
CHECK_DEADLOCK FALSE
INVARIANTS
    PointerHasArchive
    SourcesArePristine
    ContentIsLabelled
    RecordedIsStored
    IrIsOwn
    RowsDespiteRedelivery
    DwarfWithinBudget
    DebugInfoIsSound
