SPECIFICATION NodeSpec
CONSTANTS
 kc = kc
 kd = kd
 x = x
 y = y
 Conflict = {kc, kd}
 MaxCursor = 1
 MaxStamp = 3
 MaxCrashes = 1
 Above <- TheNames
 Library <- Five
 Settings <- TheSettings
 SavedPolicies <- TheSaved
 Moderated <- TheModerated
 Forms <- TheForms
 Admins = {x, y}
 Reviewers = {"v"}
 Root = "root"
 Identity <- TheIdentities
 FirstGrants <- TheGrants
 ScopeSets <- TheScopes
 MaxAdminRequests = 1
 MaxGrants = 2
 MaxModTime = 2
 MaxModStops = 1
 Indexes <- TheIndexes
 Walks <- TheWalks
 Ranked <- TheRanked
 Routes <- TheRoutes
 HotHours = 36
 HotThreshold = 1
 MaxPageChanges = 2
 MaxAnswers = 1
 Lines <- TheLines
 Rooms <- TheRooms
 Day = 2
 MaxShown = 2
 FirstRules <- TheFirstRules
 LiveForms <- TheLiveForms
 Askers = {x}
 MaxLiveTime = 4
 MaxAsked = 1
 MaxLiveStops = 1
 Hosts = {"host"}
 Guests = {"guest"}
 Updaters = {"updater"}
 Watcher = "watcher"
 Archivists = {"guest"}
 MaxSaid = 3
 MaxSessionStops = 1
 Folders <- TheFolders
 Relative = {"dt"}
 Builtin <- TheBuiltin
 Operators = {"op"}
 MaxCommands = 4
 MaxHalts = 1
SYMMETRY Same
INVARIANTS SavedCursorStays ResolutionHeld ShownIsAdmitted EveryPostIsReached DailyArchivesComplete PagesObeyRules ArchiveHoldsOwnWords InstallBreaksNoOther
PROPERTIES DecisionsAreAuthorised DecisionsStick KeyFollowsHost
CHECK_DEADLOCK FALSE
