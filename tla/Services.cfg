\* The services one at a time, each on a small instance.
SPECIFICATION ServicesSpec
CONSTANTS
  Points = {p1, p2}
  Stats = {mean}
  RegionTasks = {t1, t2}
  MaxObjects = 2
  MaxRegionMessages = 3
  Appliers = {t1, t2}
  MaxUpdates = 1
  MaxConverters = 2
  Outside = {2}
  Previews = {1, 2}
  PreviewTasks = {t1, t2}
  CutKinds = {1}
  CubeKinds = {1}
  Rebinned = {1}
  MaxLineMoves = 2
  MaxPreviewMessages = 3
  ProfileTasks = {t1, t2}
  Coordinates = {x, y}
  Boxes = 1
  MaxStates = 2
  MaxLineMessages = 2
  CursorTasks = {t1, t2}
  Cursors = {a, b}
  OutsideImage = {}
  SpectralConfigs = {"z", "Qz"}
  Slices = 2
  MomentJobs = {m1, m2}
  FitJobs = {g1, g2}
  RestFrequencies = {1, 2}
  MaxRequests = 2
  HttpRequests = {r1, r2, r3}
  ScriptSessions = {s1, s2}
  Listings = {l1, l2}
  Entries = 2
  MaxListMessages = 4
  LoaderFiles = {f1, f2, f3}
  Watched = {f1}
  LoaderTasks = {t1, t2}
  Capacity = 2
  MaxFileChanges = 2
  FirstRegions <- MCFirstRegions
  NextRegions <- MCNextRegions
  Unconvertible <- MCUnconvertible
  Catalogs = {1}
  TableFiles <- MCTableFiles
  Filters <- MCFilters
  SortColumns = {"", "x", "u"}
  MaxChunk = 2
  PageSizes = {1, 3}
  MaxTableMessages = 3
  ArgumentLists <- MCArgumentLists
  PortLists <- MCPortLists
  DefaultPort = 1
  PortTrials = 2
  PortModulus = 4
  Backends = {b1, b2, b3}
  ReadOnly = {b3}
  PrefKeys = {k1, k2}
  PrefValues = {v1}
  Objects = {"layout"}
  MaxDatabaseRequests = 3
  HistogramTasks = {t1, t2}
  CubeConfigs = {c1, c2, c3}
  InLoader = {c2}
  WithoutStokes = {c3}
  CubeDepth = 2
  MaxHistogramMessages = 3
  ProfileRows <- MCProfileRows
  ProfileImages <- MCProfileImages
  ProfileConfigs <- MCProfileConfigs
  ProfileZ = {1, 2}
  SavedImages <- MCSavedImages
  SaveRequests <- MCSaveRequests
  ReadOnlyModes = {FALSE, TRUE}
  MaxSaves = 2
  ConcatRequests <- MCConcatRequests
SYMMETRY TaskSymmetry
INVARIANTS
  ServicesTypeOK
  RegionHandlerCorrect PvPreviewCorrect ProfilesCorrect GeneratorsCorrect
  ScriptingCorrect FileListsCorrect ImageFilesCorrect  TablesCorrect
  ConfigurationCorrect
CHECK_DEADLOCK FALSE
