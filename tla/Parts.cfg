SPECIFICATION PartsSpec
CONSTANTS
    PartsChecked = {"history", "build", "patches", "images", "terminal",
                    "rpm", "deb", "osi"}
    Tasks = {t1, t2, t3}
    Histids = {h1, h2}
    Sizes = {1, 2}
    Policies <- SomePolicies
    MaxClock = 1
    Upstream = {1, 2}
    Definitions <- SomeDefinitions
    GivenPatches <- SomePatches
    Targets = {x86_64, aarch64}
    MaxBuilds = 2
    MaxKills = 1
    NoFile = NoFile
    Garbage = Garbage
    NoDefinition = NoDefinition
    NotRead = NotRead
    NoVersion = NoVersion
    SourceFiles = {f, g}
    FileContents = {0, 1}
    TreeOf <- Trees
    MaxCommits = 2
    MaxRuns = 2
    NoChange = NoChange
    Instances = {"a", "b"}
    ImageFormats = {"rpm", "deb"}
    Environs = {"el9"}
    MaxImages = 3
    MaxStops = 1
    MaxChunks = 2
    TtyReadSize = 3
    MaxResizes = 2
    Architectures = {x86_64, aarch64}
    Artifacts = {foo, bar}
    Noarch = {bar}
    Mains = {1, 2}
    MaxNumber = 2
    MaxTasks = 3
    MaxFailures = 1
    NoJob = NoJob
    Distributions = {"d1", "d2"}
    Derivatives = {"main", "next"}
    DebPlaces <- Places
    DebArtifacts = {"foo", "bar"}
    DebNoarch = {"bar"}
    DebMains = {1, 2}
    MaxDebNumber = 1
    MaxDebTasks = 3
    MaxDebFailures = 1
    NoPublication = NoPublication
    Names = {foo, bar}
    MaxCreations = 2
    MaxRenewals = 1
    MaxFaults = 2
    MaxOsiBuilds = 2
    None = None
INVARIANTS
    PartsTypeOK
    PurgeIsExact
    BuildsFromVerified
    SeriesIsComplete
    PrescriptStartsClean
    PublishedAreSigned
    WorkerSurvives
    RunsKeepPatches
    ReimportGivesTree
    CreationAloneIsSound
    TerminalsAgree
    ScreenIsFaithful
    RegistriesAreCurrent
    ListingsAreTrue
    CanSignForEver
    CreationCanBeRepeated
    VerifiersAreCurrent
PROPERTIES
    RebuildsAreNew
CHECK_DEADLOCK FALSE
