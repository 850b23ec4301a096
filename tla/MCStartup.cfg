\* A process that loads one configuration, or two, and starts the provider.
SPECIFICATION FairSpec
CONSTANTS
    ka = ka
    kb = kb
    kc = kc
    kh = kh
    kj = kj
    opt1 = opt1
    opt2 = opt2
    url1 = url1
    url2 = url2
    url3 = url3
    home = home
    map1 = map1
    built = built
    None = None
    Factory <- FactorySettings
    Models <- ModelSet
    Lower <- LowerTable
    Builtin <- BuiltinTable
    Files <- AllFiles
    Folders <- FolderSet
    Hidden <- HiddenSet
    Contents <- ContentTable
    Readable <- ReadableSet
    KeysIn <- KeyTable
    Disks <- DiskSet
    Dirs <- Search
    FileIn <- FileTable
    ConfigIn <- ConfigTable
    MapIn <- MapTable
    Vanishing <- VanishingSet
    MaxLoads = 2
INVARIANTS TypeOK ListensComplete FirstDirectory SettingsExplained SourceConnected GrantsTogether
PROPERTY StartsOrExits
\* A provider that listens stays as it is, and the process may have exited.
CHECK_DEADLOCK FALSE
