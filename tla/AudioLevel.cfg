SPECIFICATION FairSpec
CONSTANT Volumes = {0, 2, 4, 8, 10}
PROPERTIES
    SteadyVolumeShown
