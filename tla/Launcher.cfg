CONSTANT N = 3
SPECIFICATION LauncherSpec
INVARIANTS NoOrphans PidsAreOurs ConfirmedGone RegisteredAlive
