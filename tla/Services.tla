------------------------------ MODULE Services ------------------------------
(***************************************************************************)
(* The services of the server beside the core: regions, PV images and      *)
(* previews, profiles, cube histograms, generated and saved images,        *)
(* hypercubes, scripting, file lists, the loader cache, region files,      *)
(* catalogue tables, the settings and the database of preferences.         *)
(*                                                                         *)
(* In this model the services share no variable, and every property is     *)
(* about one of them: what holds of each in every behaviour of its own     *)
(* holds of it in every interleaving with the others.  So the steps of one *)
(* service at a time are explored, that of "service", and the product of   *)
(* their states is not.                                                    *)
(***************************************************************************)
EXTENDS Regions, RegionApplied, PvPreview, LineProfiles, CursorProfiles, Generators, Scripting,
        FileLists, LoaderCache, RegionFiles, Tables, Settings, Preferences, CubeHistograms,
        SpatialProfiles, SaveFiles, Hypercubes

VARIABLE service    \* the service that moves

serviceVars == <<regionVars, appliedVars, previewVars, lineVars, cursorVars, generatorVars,
                 scriptVars, listVars, loaderVars, regionFileVars, tableVars, settingsVars, databaseVars,
                 histogramVars, spatialVars, saveVars, hypercubeVars, service>>

ServiceNames == {"regions", "applied", "pv preview", "line profiles", "cursor profiles", "generators",
                 "scripting", "file lists", "loaders", "region files", "tables", "settings", "database",
                 "cube histograms", "spatial profiles", "saved files", "hypercubes"}

\* The services with several initial states keep to one of them when they do
\* not move.
Pinned ==
    /\ service = "applied" \/ shape = "point"
    /\ service = "cursor profiles" \/ cursor_configs = {}
    /\ service = "file lists" \/ stop_list = FALSE
    /\ service = "region files" \/
           export = [format |-> "CRTF", pixel |-> TRUE, same |-> TRUE,
                     regions |-> <<CHOOSE r \in FirstRegions : TRUE>> \o
                                 (CHOOSE rs \in NextRegions : TRUE)]
    /\ \/ service = "settings"
       \/ /\ setting_key = CHOOSE k \in Keys : k # "starting_folder"
          /\ system_file = CHOOSE c \in Contents : TRUE
          /\ user_file = CHOOSE c \in Contents : TRUE
          /\ options = {}
    /\ service = "spatial profiles" \/ profile_image = CHOOSE i \in ProfileImages : TRUE
    /\ \/ service = "saved files"
       \/ save_image = (CHOOSE i \in SavedImages : TRUE) /\ read_only = (CHOOSE m \in ReadOnlyModes : TRUE)
    /\ service = "database" \/ disk = [f \in DatabaseFiles |-> FileOf("missing", NoData)]

ServicesInit ==
    /\ service \in ServiceNames
    /\ Pinned
    /\ RegionsInit /\ RegionAppliedInit /\ PvPreviewInit /\ LineProfilesInit
    /\ CursorProfilesInit /\ GeneratorsInit /\ ScriptingInit /\ FileListsInit
    /\ LoaderCacheInit /\ RegionFilesInit /\ TablesInit /\ SettingsInit
    /\ DatabaseInit /\ CubeHistogramsInit
    /\ SpatialProfilesInit /\ SaveFilesInit /\ HypercubesInit

StepOf(name) ==
    /\ service = name /\ UNCHANGED service
    /\ IF name = "regions" THEN TRUE ELSE UNCHANGED regionVars
    /\ IF name = "applied" THEN TRUE ELSE UNCHANGED appliedVars
    /\ IF name = "pv preview" THEN TRUE ELSE UNCHANGED previewVars
    /\ IF name = "line profiles" THEN TRUE ELSE UNCHANGED lineVars
    /\ IF name = "cursor profiles" THEN TRUE ELSE UNCHANGED cursorVars
    /\ IF name = "generators" THEN TRUE ELSE UNCHANGED generatorVars
    /\ IF name = "scripting" THEN TRUE ELSE UNCHANGED scriptVars
    /\ IF name = "file lists" THEN TRUE ELSE UNCHANGED listVars
    /\ IF name = "loaders" THEN TRUE ELSE UNCHANGED loaderVars
    /\ IF name = "region files" THEN TRUE ELSE UNCHANGED regionFileVars
    /\ IF name = "tables" THEN TRUE ELSE UNCHANGED tableVars
    /\ IF name = "settings" THEN TRUE ELSE UNCHANGED settingsVars
    /\ IF name = "database" THEN TRUE ELSE UNCHANGED databaseVars
    /\ IF name = "cube histograms" THEN TRUE ELSE UNCHANGED histogramVars
    /\ IF name = "spatial profiles" THEN TRUE ELSE UNCHANGED spatialVars
    /\ IF name = "saved files" THEN TRUE ELSE UNCHANGED saveVars
    /\ IF name = "hypercubes" THEN TRUE ELSE UNCHANGED hypercubeVars

ServicesNext ==
    \/ StepOf("regions") /\ RegionsNext
    \/ StepOf("applied") /\ RegionAppliedNext
    \/ StepOf("pv preview") /\ PvPreviewNext
    \/ StepOf("line profiles") /\ LineProfilesNext
    \/ StepOf("cursor profiles") /\ CursorProfilesNext
    \/ StepOf("generators") /\ GeneratorsNext
    \/ StepOf("scripting") /\ ScriptingNext
    \/ StepOf("file lists") /\ FileListsNext
    \/ StepOf("loaders") /\ LoaderCacheNext
    \/ StepOf("region files") /\ RegionFilesNext
    \/ StepOf("tables") /\ TablesNext
    \/ StepOf("settings") /\ SettingsNext
    \/ StepOf("database") /\ DatabaseNext
    \/ StepOf("cube histograms") /\ CubeHistogramsNext
    \/ StepOf("spatial profiles") /\ SpatialProfilesNext
    \/ StepOf("saved files") /\ SaveFilesNext
    \/ StepOf("hypercubes") /\ HypercubesNext

ServicesSpec == ServicesInit /\ [][ServicesNext]_serviceVars

-----------------------------------------------------------------------------
\* The type invariants of the services: each is evaluated where its service
\* moves, the others are in an initial state of theirs.
ServicesTypeOK ==
    /\ service \in ServiceNames
    /\ service = "regions" => RegionsTypeOK
    /\ service = "applied" => RegionAppliedTypeOK
    /\ service = "pv preview" => PvPreviewTypeOK
    /\ service = "line profiles" => LineProfilesTypeOK
    /\ service = "cursor profiles" => CursorProfilesTypeOK
    /\ service = "generators" => GeneratorsTypeOK
    /\ service = "scripting" => ScriptingTypeOK
    /\ service = "file lists" => FileListsTypeOK
    /\ service = "loaders" => LoaderCacheTypeOK
    /\ service = "region files" => RegionFilesTypeOK
    /\ service = "tables" => TablesTypeOK
    /\ service = "settings" => SettingsTypeOK
    /\ service = "database" => DatabaseTypeOK
    /\ service = "cube histograms" => CubeHistogramsTypeOK
    /\ service = "spatial profiles" => SpatialProfilesTypeOK
    /\ service = "saved files" => SaveFilesTypeOK
    /\ service = "hypercubes" => HypercubesTypeOK

\* The results and the masks of regions are those of the regions as they are.
RegionHandlerCorrect ==
    /\ service = "regions" => RegionsCorrect
    /\ service = "applied" => RegionAppliedCorrect

\* The profiles the client has are those of the present line and cursor and
\* show the pixels they are asked of, cube histograms are whole, and neither they
\* nor PV images are sent when they were stopped.
ProfilesCorrect ==
    /\ service = "line profiles" => LineProfilesCorrect
    /\ service = "cursor profiles" => RequiredProfilesComplete
    /\ service = "cube histograms" => CubeHistogramsCorrect
    /\ service = "spatial profiles" => SpatialProfilesCorrect

\* Loaders of watched files are of the files as they are, a saved file is what
\* was asked for and others are kept, and a hypercube has the files it was asked
\* of.
ImageFilesCorrect ==
    /\ service = "loaders" => LoaderCacheCorrect
    /\ service = "saved files" => SaveFilesCorrect
    /\ service = "hypercubes" => HypercubesCorrect

\* The server runs with the settings it was given, and the preferences and
\* objects saved with it are kept.
ConfigurationCorrect ==
    /\ service = "settings" => SettingsCorrect
    /\ service = "database" => DatabaseCorrect
=============================================================================
