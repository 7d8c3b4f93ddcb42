\* One process, with every combination of its flags.
SPECIFICATION FairSpec
INVARIANTS StatusFollowsService
PROPERTIES StopIsFinal RequestsComplete
